---------------------------- MODULE Spec2Model ----------------------------
(***************************************************************************)
(* Model of 260215_AirflowShaper: the obstacle interaction step, the       *)
(* particle integrator with lane recovery and impact-turbulence memory,    *)
(* the emitter round-robin respawn and the playback / selection state of   *)
(* the application object.                                                 *)
(*                                                                         *)
(* Numbers.  The program computes in IEEE doubles.  The model computes in  *)
(* fixed point: an integer n stands for the real n / U with U = 10^6, so   *)
(* the program's thresholds 1e-4, 1e-5 and 1e-6 are the integers 100, 10   *)
(* and 1.  Products and quotients are formed without leaving 32 bits.      *)
(***************************************************************************)
EXTENDS Integers, Sequences, FiniteSets, TLC

(***************************************************************************)
(* Fixed-point arithmetic                                                  *)
(***************************************************************************)
K == 10 * 10 * 10
U == K * K

\* A local constant of the source: Let([x \in {e} |-> body]) is body with x
\* standing for the value of e, which is computed once.
Let(binding) == binding[CHOOSE at \in DOMAIN binding : TRUE]

Abs(a) == IF a < 0 THEN -a ELSE a
Sgn(a) == IF a < 0 THEN -1 ELSE IF a > 0 THEN 1 ELSE 0
Min2(a, b) == IF a <= b THEN a ELSE b
Max2(a, b) == IF a >= b THEN a ELSE b
Min3(a, b, c) == Min2(a, Min2(b, c))
Max3(a, b, c) == Max2(a, Max2(b, c))

\* floor(a * b / U) for a, b >= 0, by splitting both factors at K = sqrt(U).
MulU(a, b) ==
  LET a1 == a \div K
      a0 == a % K
      b1 == b \div K
      b0 == b % K
  IN  a1 * b1 + ((a1 * b0 + a0 * b1 + ((a0 * b0) \div K)) \div K)

\* a * b in fixed point, rounded toward zero.
Mul(a, b) == Sgn(a) * Sgn(b) * MulU(Abs(a), Abs(b))

RECURSIVE DivDigits(_, _, _, _)
DivDigits(q, r, b, n) ==
  IF n = 0 THEN q
  ELSE DivDigits(q * 10 + ((r * 10) \div b), (r * 10) % b, b, n - 1)

\* floor(a * U / b) for a >= 0, b > 0, by long division (six decimal digits).
DivU(a, b) == DivDigits(a \div b, a % b, b, 6)

\* a / b in fixed point, rounded toward zero (b # 0).
Div(a, b) == Sgn(a) * Sgn(b) * DivU(Abs(a), Abs(b))

RECURSIVE ISqrtIter(_, _)
ISqrtIter(n, g) ==
  LET h == (g + (n \div g)) \div 2
  IN  IF h >= g THEN g ELSE ISqrtIter(n, h)

\* floor(sqrt(n)) of an integer n >= 0.
ISqrt(n) == IF n <= 0 THEN 0 ELSE ISqrtIter(n, 46341)

RECURSIVE NewtonSqrt(_, _, _)
NewtonSqrt(x, g, n) ==
  IF n = 0 \/ g = 0 THEN g
  ELSE NewtonSqrt(x, (g + Div(x, g)) \div 2, n - 1)

\* Math.sqrt in fixed point (x >= 0).
Sqrt(x) == IF x <= 0 THEN 0 ELSE NewtonSqrt(x, Max2(1, ISqrt(x)) * K, 5)

RECURSIVE ExpSquare(_, _)
ExpSquare(y, n) == IF n = 0 THEN y ELSE ExpSquare(Mul(y, y), n - 1)

\* Math.exp(-x) in fixed point for x >= 0: Taylor series of exp(-x/16),
\* squared four times.
ExpNeg(x) ==
  IF x >= 20 * U THEN 0
  ELSE Let([ t  \in { x \div 16 } |->
       Let([ t2 \in { Mul(t, t) } |->
       Let([ t3 \in { Mul(t2, t) } |->
       Let([ t4 \in { Mul(t3, t) } |->
       Let([ t5 \in { Mul(t4, t) } |->
       Let([ t6 \in { Mul(t5, t) } |->
         ExpSquare(U - t + (t2 \div 2) - (t3 \div 6) + (t4 \div 24)
                     - (t5 \div 120) + (t6 \div 720), 4) ]) ]) ]) ]) ]) ])

\* clamp(value, min, max) of obstacleInteraction.
Clamp(value, min, max) == Max2(min, Min2(max, value))

(***************************************************************************)
(* three.js Vector3 operations on triples <<x, y, z>>                      *)
(***************************************************************************)
Zero3 == <<0, 0, 0>>
VAdd(a, b) == <<a[1] + b[1], a[2] + b[2], a[3] + b[3]>>
VSub(a, b) == <<a[1] - b[1], a[2] - b[2], a[3] - b[3]>>
VScale(a, s) == <<Mul(a[1], s), Mul(a[2], s), Mul(a[3], s)>>
VDot(a, b) == Mul(a[1], b[1]) + Mul(a[2], b[2]) + Mul(a[3], b[3])
VAddScaled(a, b, s) == VAdd(a, VScale(b, s))
VLengthSq(a) == VDot(a, a)

\* Vector3.length: the components are divided by the largest one first, so
\* that short vectors keep their relative precision.
VLength(a) ==
  Let([ m \in { Max3(Abs(a[1]), Abs(a[2]), Abs(a[3])) } |->
    IF m = 0 THEN 0
    ELSE Let([ x \in { Div(a[1], m) }, y \in { Div(a[2], m) }, z \in { Div(a[3], m) } |->
           Mul(m, Sqrt(Mul(x, x) + Mul(y, y) + Mul(z, z))) ]) ])

\* Vector3.normalize: divideScalar(length() || 1).
VNormalize(a) ==
  Let([ len \in { VLength(a) } |->
    IF len = 0 THEN a
    ELSE <<Div(a[1], len), Div(a[2], len), Div(a[3], len)>> ])

\* Vector3.lerp(target, alpha).
VLerp(a, b, alpha) == VAdd(a, VScale(VSub(b, a), alpha))


(***************************************************************************)
(* Math.sin / Math.cos in fixed point (flowField's hash waves)             *)
(***************************************************************************)
Pi == 3141593
TwoPi == 2 * Pi
HalfPi == Pi \div 2

\* sin on [0, pi/2] by its Taylor series up to x^11.
SinQuarter(x) ==
  Let([ x2  \in { Mul(x, x) } |->
  Let([ x3  \in { Mul(x2, x) } |->
  Let([ x5  \in { Mul(x3, x2) } |->
  Let([ x7  \in { Mul(x5, x2) } |->
  Let([ x9  \in { Mul(x7, x2) } |->
  Let([ x11 \in { Mul(x9, x2) } |->
    x - (x3 \div 6) + (x5 \div 120) - (x7 \div 5040) + (x9 \div 362880)
      - (x11 \div 39916800) ]) ]) ]) ]) ]) ])

Sin(x) ==
  LET r == x % TwoPi
      h == IF r >= Pi THEN r - Pi ELSE r
      q == IF h > HalfPi THEN Pi - h ELSE h
  IN  (IF r >= Pi THEN -1 ELSE 1) * SinQuarter(q)

Cos(x) == Sin(x + HalfPi)

(***************************************************************************)
(* flowField: curl noise and wake decay                                    *)
(***************************************************************************)
EPSILON == 50000
AXIS_A == <<12989800, 78233000, 37719000>>
AXIS_B == <<39346800, 11135000, 83155000>>
AXIS_C == <<73156000, 52235000, 9151000>>

hashWave(x, y, z, axis, time) ==
  Let([ dot \in { Mul(x, axis[1]) + Mul(y, axis[2]) + Mul(z, axis[3]) + Mul(time, 650000) } |->
    Mul(Sin(dot), Cos(Mul(dot, 1370000) + 3100000)) ])

potentialA(x, y, z, time) ==
  hashWave(x, y, z, AXIS_A, time) + hashWave(x, y, z, AXIS_B, Mul(time, 650000))

potentialB(x, y, z, time) ==
  hashWave(x, y, z, AXIS_B, time) + hashWave(x, y, z, AXIS_C, Mul(time, 720000))

potentialC(x, y, z, time) ==
  hashWave(x, y, z, AXIS_C, time) + hashWave(x, y, z, AXIS_A, Mul(time, 590000))

\* The six neighbours at which the potentials are sampled.
CurlSteps ==
  { <<EPSILON, 0, 0>>, <<-EPSILON, 0, 0>>, <<0, EPSILON, 0>>, <<0, -EPSILON, 0>>,
    <<0, 0, EPSILON>>, <<0, 0, -EPSILON>> }

\* The raw (not yet normalised) curl of the three potentials by central
\* differences with step EPSILON.
RawCurl(position, time, scale) ==
  Let([ x \in { Mul(position[1], Max2(100, scale)) },
        y \in { Mul(position[2], Max2(100, scale)) },
        z \in { Mul(position[3], Max2(100, scale)) } |->
  Let([ A \in { [ d \in CurlSteps |-> potentialA(x + d[1], y + d[2], z + d[3], time) ] },
        B \in { [ d \in CurlSteps |-> potentialB(x + d[1], y + d[2], z + d[3], time) ] },
        C \in { [ d \in CurlSteps |-> potentialC(x + d[1], y + d[2], z + d[3], time) ] } |->
    LET dA_dY == Div(A[<<0, EPSILON, 0>>] - A[<<0, -EPSILON, 0>>], 2 * EPSILON)
        dA_dZ == Div(A[<<0, 0, EPSILON>>] - A[<<0, 0, -EPSILON>>], 2 * EPSILON)
        dB_dX == Div(B[<<EPSILON, 0, 0>>] - B[<<-EPSILON, 0, 0>>], 2 * EPSILON)
        dB_dZ == Div(B[<<0, 0, EPSILON>>] - B[<<0, 0, -EPSILON>>], 2 * EPSILON)
        dC_dX == Div(C[<<EPSILON, 0, 0>>] - C[<<-EPSILON, 0, 0>>], 2 * EPSILON)
        dC_dY == Div(C[<<0, EPSILON, 0>>] - C[<<0, -EPSILON, 0>>], 2 * EPSILON)
    IN  <<dC_dY - dB_dZ, dA_dZ - dC_dX, dB_dX - dA_dY>> ]) ])

\* A plausible slip: the guard compares the length with 1 and not with 1e-5.
NormalizeCurlAboveOne(raw) ==
  Let([ length \in { VLength(raw) } |->
    IF length > U
    THEN <<Div(raw[1], length), Div(raw[2], length), Div(raw[3], length)>>
    ELSE raw ])

\* The tail of sampleCurlNoise: the raw curl is scaled to unit length when
\* its length exceeds 1e-5 and returned as it is otherwise.
NormalizeCurl(raw) ==
  Let([ length \in { VLength(raw) } |->
    IF length > 10
    THEN <<Div(raw[1], length), Div(raw[2], length), Div(raw[3], length)>>
    ELSE raw ])

sampleCurlNoise(position, time, scale) == NormalizeCurl(RawCurl(position, time, scale))

\* A plausible slip: the guard lets a downstream distance of 0 through.
computeWakeDecayFromZero(downstreamDistance, lateralDistance, radius) ==
  IF downstreamDistance < 0 THEN 0
  ELSE LET safeRadius     == Max2(100, radius)
           lateralTerm    == ExpNeg(Div(Mul(lateralDistance, lateralDistance), Mul(safeRadius, safeRadius)))
           downstreamTerm == ExpNeg(Div(downstreamDistance, Mul(safeRadius, 5500000)))
       IN  Mul(lateralTerm, downstreamTerm)

computeWakeDecay(downstreamDistance, lateralDistance, radius) ==
  IF downstreamDistance <= 0 THEN 0
  ELSE LET safeRadius     == Max2(100, radius)
           lateralTerm    == ExpNeg(Div(Mul(lateralDistance, lateralDistance), Mul(safeRadius, safeRadius)))
           downstreamTerm == ExpNeg(Div(downstreamDistance, Mul(safeRadius, 5500000)))
       IN  Mul(lateralTerm, downstreamTerm)

(***************************************************************************)
(* Scene objects.  An obstacle or the emitter is a transformObject         *)
(* (position, rotation) holding a scaleProxy (scale) holding the mesh, so  *)
(* the mesh's world matrix is T * R * S.  A rotation is given by the       *)
(* images <<ex, ey, ez>> of the three local axes.                          *)
(***************************************************************************)
RotIdentity == <<<<U, 0, 0>>, <<0, U, 0>>, <<0, 0, U>>>>
\* A quarter turn about the world Y axis: local z points along world x.
RotQuarterY == <<<<0, 0, -U>>, <<0, U, 0>>, <<U, 0, 0>>>>
\* A turn about the world Y axis by the angle with cosine 0.8 and sine 0.6.
RotTiltY == <<<<800000, 0, -600000>>, <<0, U, 0>>, <<600000, 0, 800000>>>>

\* R * v
Rotate(rot, v) == VAdd(VAdd(VScale(rot[1], v[1]), VScale(rot[2], v[2])), VScale(rot[3], v[3]))
\* R^T * v
RotateInverse(rot, v) == <<VDot(rot[1], v), VDot(rot[2], v), VDot(rot[3], v)>>

\* Vector3.applyMatrix4(object.matrixWorld)
ApplyWorldMatrix(t, p) ==
  VAdd(t.position, Rotate(t.rotation, <<Mul(p[1], t.scale[1]), Mul(p[2], t.scale[2]), Mul(p[3], t.scale[3])>>))

\* Vector3.applyMatrix4(inverse of object.matrixWorld)
ApplyInverseWorldMatrix(t, p) ==
  Let([ q \in { RotateInverse(t.rotation, VSub(p, t.position)) } |->
    <<Div(q[1], t.scale[1]), Div(q[2], t.scale[2]), Div(q[3], t.scale[3])>> ])

\* Vector3.applyMatrix3(normal matrix of object.matrixWorld), not normalised:
\* the normal matrix is the inverse transpose, R * S^-1.
ApplyNormalMatrix(t, n) ==
  Rotate(t.rotation, <<Div(n[1], t.scale[1]), Div(n[2], t.scale[2]), Div(n[3], t.scale[3])>>)

ShapeKinds == {"plane", "box", "sphere", "pyramid", "torus"}

\* The bounding-box size of the geometry each add-obstacle operation builds.
LocalSize(kind) ==
  CASE kind = "plane"   -> <<U, U, 0>>
    [] kind = "box"     -> <<U, 620000, 620000>>
    [] kind = "sphere"  -> <<U, U, U>>
    [] kind = "pyramid" -> <<U, U, U>>
    [] kind = "torus"   -> <<U, U, 312000>>

\* The scaleProxy scale each add-obstacle operation sets.
InitialScale(kind) ==
  CASE kind = "plane"   -> <<1800000, 950000, U>>
    [] kind = "box"     -> <<1200000, U, U>>
    [] kind = "sphere"  -> <<1050000, 1050000, U>>
    [] kind = "pyramid" -> <<1050000, 1050000, U>>
    [] kind = "torus"   -> <<1150000, 1150000, U>>

(***************************************************************************)
(* obstacleInteraction                                                     *)
(***************************************************************************)
\* updateObstacleFieldDataFromObject: the snapshot of one obstacle entity
\* e = [kind, position, rotation, scale].
updateObstacleFieldDataFromObject(e, influenceRadius, wakeStrength) ==
  Let([ localSize \in { LocalSize(e.kind) } |->
  Let([ absScaleX  \in { Max2(100, Abs(e.scale[1])) },
        absScaleY  \in { Max2(100, Abs(e.scale[2])) },
        absScaleZ  \in { Max2(100, Abs(e.scale[3])) },
        halfWidth  \in { Max2(100, localSize[1] \div 2) },
        halfHeight \in { Max2(100, localSize[2] \div 2) },
        halfDepth  \in { Max2(100, localSize[3] \div 2) } |->
    [ shapeKind        |-> e.kind,
      center           |-> e.position,
      world            |-> [position |-> e.position, rotation |-> e.rotation, scale |-> e.scale],
      scaleX           |-> absScaleX,
      scaleY           |-> absScaleY,
      scaleZ           |-> absScaleZ,
      halfWidth        |-> halfWidth,
      halfHeight       |-> halfHeight,
      halfDepth        |-> halfDepth,
      boundingRadius   |-> VLength(<<Mul(halfWidth, absScaleX), Mul(halfHeight, absScaleY), Mul(halfDepth, absScaleZ)>>),
      sphereRadius     |-> Max2(100, IF e.kind = "sphere" THEN 500000
                                     ELSE Max3(localSize[1], localSize[2], localSize[3]) \div 2),
      torusMajorRadius |-> Max2(100, 340000),
      torusMinorRadius |-> Max2(100, 160000),
      influenceRadius  |-> influenceRadius,
      wakeStrength     |-> wakeStrength ] ]) ])

\* Math.sign(x) || 1
SignOrOne(x) == IF x < 0 THEN -1 ELSE 1

\* The sphere branch of computeLocalSurfaceDistanceAndNormal.
SphereSurface(p, obstacle) ==
  LET radius == Max2(100, obstacle.sphereRadius)
  IN  Let([ invRadiusSq \in { Div(U, Mul(radius, radius)) } |->
      Let([ f \in { Mul(VLengthSq(p), invRadiusSq) - U },
            g \in { VScale(p, 2 * invRadiusSq) } |->
      Let([ gradLength \in { VLength(g) } |->
      Let([ normal \in { IF gradLength > 1
                         THEN <<Div(g[1], gradLength), Div(g[2], gradLength), Div(g[3], gradLength)>>
                         ELSE <<0, 0, U>> },
            signedDistance \in { IF gradLength > 1 THEN Div(f, gradLength) ELSE radius } |->
        [ distance |-> signedDistance,
          normal   |-> normal,
          nearest  |-> VSub(p, VScale(normal, signedDistance)) ] ]) ]) ]) ])

\* The torus branch.
TorusSurface(p, obstacle) ==
  LET major == Max2(100, obstacle.torusMajorRadius)
      minor == Max2(100, obstacle.torusMinorRadius)
      qy    == p[3]
  IN  Let([ xy \in { VLength(<<p[1], p[2], 0>>) } |->
      Let([ qx \in { xy - major } |->
      Let([ qLength \in { VLength(<<qx, qy, 0>>) } |->
      Let([ signedDistance \in { qLength - minor },
            normal \in { IF xy > 1 /\ qLength > 1
                         THEN Let([ radialX       \in { Div(p[1], xy) },
                                    radialY       \in { Div(p[2], xy) },
                                    tangentFactor \in { Div(qx, qLength) } |->
                                VNormalize(<<Mul(radialX, tangentFactor), Mul(radialY, tangentFactor),
                                             Div(qy, qLength)>>) ])
                         ELSE <<0, 0, U>> } |->
        [ distance |-> signedDistance,
          normal   |-> normal,
          nearest  |-> VSub(p, VScale(normal, signedDistance)) ] ]) ]) ]) ])

\* The pyramid branch: a box whose cross-section shrinks linearly along z.
PyramidSurface(p, obstacle) ==
  LET halfWidth  == Max2(100, obstacle.halfWidth)
      halfHeight == Max2(100, obstacle.halfHeight)
      halfDepth  == Max2(100, obstacle.halfDepth)
  IN  Let([ zClamped \in { Clamp(p[3], -halfDepth, halfDepth) } |->
      Let([ section \in { Clamp(Div(halfDepth - zClamped, 2 * halfDepth), 0, U) } |->
      Let([ allowedX \in { Max2(10, Mul(halfWidth, section)) },
            allowedY \in { Max2(10, Mul(halfHeight, section)) } |->
      Let([ nearestX \in { Clamp(p[1], -allowedX, allowedX) },
            nearestY \in { Clamp(p[2], -allowedY, allowedY) } |->
      Let([ signedDelta \in { <<p[1] - nearestX, p[2] - nearestY, p[3] - zClamped>> } |->
      Let([ outsideDistance \in { VLength(signedDelta) } |->
        LET inside == /\ p[3] >= -halfDepth
                      /\ p[3] <= halfDepth
                      /\ Abs(p[1]) <= allowedX
                      /\ Abs(p[2]) <= allowedY
            sideX  == allowedX - Abs(p[1])
            sideY  == allowedY - Abs(p[2])
            top    == halfDepth - p[3]
            base   == p[3] + halfDepth
        IN  IF ~inside
            THEN [ distance |-> outsideDistance,
                   normal   |-> IF outsideDistance > 1 THEN VNormalize(signedDelta) ELSE <<0, 0, U>>,
                   nearest  |-> <<nearestX, nearestY, zClamped>> ]
            ELSE Let([ insideDepth \in { Min2(Min2(sideX, sideY), Min2(top, base)) } |->
                 Let([ insideNormal \in {
                         IF insideDepth = top THEN <<0, 0, U>>
                         ELSE IF insideDepth = base THEN <<0, 0, -U>>
                         ELSE IF insideDepth = sideX
                              THEN VNormalize(<<SignOrOne(p[1]) * U, 0, Div(halfWidth, 2 * halfDepth)>>)
                              ELSE VNormalize(<<0, SignOrOne(p[2]) * U, Div(halfHeight, 2 * halfDepth)>>) } |->
                   [ distance |-> -insideDepth,
                     normal   |-> insideNormal,
                     nearest  |-> VSub(p, VScale(insideNormal, insideDepth)) ] ]) ])
      ]) ]) ]) ]) ]) ])

\* The box branch, which the plane shares with a depth of influence * 0.25.
\* Inside the box the nearest point stays the clamped point, which is the
\* query point itself: only the outside branch and the other shapes move it
\* to the surface.
BoxSurface(shapeKind, p, obstacle) ==
  Let([ halfWidth  \in { Max2(100, obstacle.halfWidth) },
        halfHeight \in { Max2(100, obstacle.halfHeight) },
        halfDepth  \in { IF shapeKind = "plane"
                         THEN Max2(100, Mul(obstacle.influenceRadius, 250000))
                         ELSE Max2(100, obstacle.halfDepth) } |->
  Let([ nearest \in { <<Clamp(p[1], -halfWidth, halfWidth),
                         Clamp(p[2], -halfHeight, halfHeight),
                         Clamp(p[3], -halfDepth, halfDepth)>> } |->
  Let([ signedDelta \in { VSub(p, nearest) } |->
  Let([ outsideDistance \in { VLength(signedDelta) },
        insideX \in { halfWidth - Abs(p[1]) },
        insideY \in { halfHeight - Abs(p[2]) },
        insideZ \in { halfDepth - Abs(p[3]) } |->
    IF outsideDistance > 1
    THEN [ distance |-> outsideDistance, normal |-> VNormalize(signedDelta), nearest |-> nearest ]
    ELSE IF insideX <= insideY /\ insideX <= insideZ
    THEN [ distance |-> -insideX, normal |-> <<SignOrOne(p[1]) * U, 0, 0>>, nearest |-> nearest ]
    ELSE IF insideY <= insideX /\ insideY <= insideZ
    THEN [ distance |-> -insideY, normal |-> <<0, SignOrOne(p[2]) * U, 0>>, nearest |-> nearest ]
    ELSE [ distance |-> -insideZ, normal |-> <<0, 0, SignOrOne(p[3]) * U>>, nearest |-> nearest ]
  ]) ]) ]) ])

\* computeLocalSurfaceDistanceAndNormal: the returned distance and the two
\* scratch vectors it leaves behind (surface normal, nearest point), all in
\* the obstacle's local frame.
computeLocalSurfaceDistanceAndNormal(shapeKind, p, obstacle) ==
  IF shapeKind = "sphere" THEN SphereSurface(p, obstacle)
  ELSE IF shapeKind = "torus" THEN TorusSurface(p, obstacle)
  ELSE IF shapeKind = "pyramid" THEN PyramidSurface(p, obstacle)
  ELSE BoxSurface(shapeKind, p, obstacle)

\* clamp(a / b, 0, 1) for b > 0.
ClampedRatio(a, b) == IF a <= 0 THEN 0 ELSE IF a >= b THEN U ELSE Div(a, b)

\* The wake radius of applyObstacleInteraction, per shape kind.
WakeRadius(obstacle, influence) ==
  IF obstacle.shapeKind = "torus"
  THEN Max3(Mul(obstacle.torusMajorRadius + obstacle.torusMinorRadius, obstacle.scaleX),
            Mul(obstacle.torusMajorRadius + obstacle.torusMinorRadius, obstacle.scaleY),
            Mul(obstacle.torusMinorRadius, obstacle.scaleZ)) + influence
  ELSE IF obstacle.shapeKind = "sphere"
  THEN Max3(Mul(obstacle.sphereRadius, obstacle.scaleX),
            Mul(obstacle.sphereRadius, obstacle.scaleY),
            Mul(obstacle.sphereRadius, obstacle.scaleZ)) + influence
  ELSE Max3(Mul(obstacle.halfWidth, obstacle.scaleX),
            Mul(obstacle.halfHeight, obstacle.scaleY),
            Mul(obstacle.halfDepth, obstacle.scaleZ)) + influence

\* The wake turbulence injection at the end of applyObstacleInteraction.
WakeTurbulenceUnclamped(position, velocity, obstacle, flowDirection, time, turbulenceScale, turbulenceStrength, wakeFactor) ==
  LET turbulenceAmount == Abs(turbulenceStrength)
  IN  IF turbulenceAmount > 10
      THEN Let([ noise \in { sampleCurlNoise(position, time, turbulenceScale) } |->
           Let([ wake \in { VAddScaled(noise, flowDirection, -VDot(noise, flowDirection)) } |->
             IF VLengthSq(wake) > 1
             THEN VAddScaled(velocity, VNormalize(wake),
                             Mul(Mul(wakeFactor, obstacle.wakeStrength), turbulenceAmount))
             ELSE velocity ]) ])
      ELSE velocity

WakeTurbulence(position, velocity, obstacle, flowDirection, time, turbulenceScale, turbulenceStrength, wakeFactor) ==
  LET turbulenceAmount == Max2(0, turbulenceStrength)
  IN  IF turbulenceAmount > 10
      THEN Let([ noise \in { sampleCurlNoise(position, time, turbulenceScale) } |->
           Let([ wake \in { VAddScaled(noise, flowDirection, -VDot(noise, flowDirection)) } |->
             IF VLengthSq(wake) > 1
             THEN VAddScaled(velocity, VNormalize(wake),
                             Mul(Mul(wakeFactor, obstacle.wakeStrength), turbulenceAmount))
             ELSE velocity ]) ])
      ELSE velocity

\* A plausible slip: the normal component is damped, not removed.
DampNormalComponent(velocity, surfaceNormal) ==
  VAddScaled(velocity, surfaceNormal, -(VDot(velocity, surfaceNormal) \div 2))

\* velocity.addScaledVector(surfaceNormalWorldScratch, -normalVelocity)
RemoveNormalComponent(velocity, surfaceNormal) ==
  VAddScaled(velocity, surfaceNormal, -VDot(velocity, surfaceNormal))

\* applyObstacleInteraction: the position and velocity it leaves and the
\* boolean it returns.  surfaceNormal and signedDistance are the values of
\* its locals of those names.
applyObstacleInteraction(position, velocity, obstacle, flowDirection, time, turbulenceScale, turbulenceStrength) ==
  Let([ toCenter  \in { VSub(position, obstacle.center) },
        local     \in { ApplyInverseWorldMatrix(obstacle.world, position) },
        influence \in { Max2(10000, obstacle.influenceRadius) } |->
  Let([ surface \in { computeLocalSurfaceDistanceAndNormal(obstacle.shapeKind, local, obstacle) } |->
  Let([ surfaceNormal \in { VNormalize(ApplyNormalMatrix(obstacle.world, surface.normal)) },
        nearestWorld  \in { ApplyWorldMatrix(obstacle.world, surface.nearest) } |->
  Let([ signedDistance   \in { VDot(VSub(position, nearestWorld), surfaceNormal) },
        barrierThickness \in { Min2(50000, Mul(influence, 350000)) } |->
  Let([ nearSurface \in { signedDistance <= influence } |->
  Let([ pushed \in { IF nearSurface /\ signedDistance < barrierThickness
                     THEN VAddScaled(position, surfaceNormal, barrierThickness - signedDistance + 100)
                     ELSE position },
        slid   \in { RemoveNormalComponent(velocity, surfaceNormal) },
        radial \in { VAddScaled(toCenter, surfaceNormal, -VDot(toCenter, surfaceNormal)) },
        blend  \in { U - ClampedRatio(signedDistance, influence) } |->
  Let([ bypassed \in { IF VLengthSq(radial) > 1
                       THEN VAddScaled(slid, VNormalize(radial), Mul(650000, blend))
                       ELSE slid },
        forwardPull \in { ClampedRatio(signedDistance, influence) },
        flowTangent \in { VAddScaled(flowDirection, surfaceNormal, -VDot(flowDirection, surfaceNormal)) } |->
  Let([ pulled \in { IF VLengthSq(flowTangent) > 1
                     THEN VAddScaled(bypassed, VNormalize(flowTangent), Mul(350000, U - forwardPull))
                     ELSE bypassed } |->
  Let([ deflected \in { IF nearSurface THEN pulled ELSE velocity },
        projectedAlongFlow \in { VDot(toCenter, flowDirection) } |->
  Let([ downstream \in { projectedAlongFlow - obstacle.boundingRadius },
        lateralDistance \in { VLength(VSub(toCenter, VScale(flowDirection, projectedAlongFlow))) } |->
  Let([ wakeFactor \in { computeWakeDecay(downstream, lateralDistance, WakeRadius(obstacle, influence)) },
        currentSpeed \in { VLength(deflected) } |->
  Let([ recovered \in { IF ~nearSurface /\ downstream > Mul(influence, 350000) /\ currentSpeed > 10
                        THEN VLerp(deflected, VScale(flowDirection, currentSpeed),
                                   Clamp(Mul(wakeFactor, 220000), 0, 200000))
                        ELSE deflected } |->
  Let([ inWake \in { downstream > 0 /\ wakeFactor > 10 } |->
    [ position       |-> pushed,
      velocity       |-> IF inWake
                         THEN WakeTurbulence(pushed, recovered, obstacle, flowDirection, time,
                                             turbulenceScale, turbulenceStrength, wakeFactor)
                         ELSE deflected,
      nearSurface    |-> nearSurface,
      surfaceNormal  |-> surfaceNormal,
      signedDistance |-> signedDistance,
      inWake         |-> inWake,
      beforeWake     |-> recovered,
      recovering     |-> inWake /\ ~nearSurface /\ downstream > Mul(influence, 350000)
                                /\ currentSpeed > 10,
      recoveryBlend  |-> Clamp(Mul(wakeFactor, 220000), 0, 200000) ]
  ]) ]) ]) ]) ]) ]) ]) ]) ]) ]) ]) ]) ])

(***************************************************************************)
(* Emitter sampling.                                                       *)
(***************************************************************************)
EMITTER_WIDTH == 2000000
EMITTER_HEIGHT == 1200000

\* clampDensity with its default limits; densities are whole numbers here,
\* on which Math.round is the identity.
clampDensity(value) == Max2(1, Min2(70, value))

getEmitterVertexCount(densityX, densityY) ==
  (clampDensity(densityX) + 1) * (clampDensity(densityY) + 1)

\* buildEmitterLocalVertices: rows of y, each a run of x.
buildEmitterLocalVertices(densityX, densityY) ==
  LET segX == clampDensity(densityX)
      segY == clampDensity(densityY)
  IN  [ k \in 1..((segX + 1) * (segY + 1)) |->
          LET x == (k - 1) % (segX + 1)
              y == (k - 1) \div (segX + 1)
          IN  << Mul(Div(x * U, segX * U) - (U \div 2), EMITTER_WIDTH),
                 Mul(Div(y * U, segY * U) - (U \div 2), EMITTER_HEIGHT),
                 0 >> ]

computeEmitterWorldNormal(rotation) == VNormalize(Rotate(rotation, <<0, 0, U>>))

\* computeSpawnRateFromVertexCount, as the repository's test of it pins it
\* down: eight spawns per vertex, at least 40, at most six per particle slot.
computeSpawnRateFromVertexCount(vertexCount, maxParticles) ==
  Max2(40, Min2(maxParticles * 6, vertexCount * 8)) * U

(***************************************************************************)
(* Bounds of the model.                                                    *)
(***************************************************************************)
\* Particle slots (the program allocates MAX_PARTICLES = 4200).
MaxParticles == 2
\* Samples kept per trail (the program keeps DEFAULT_TRAIL_LENGTH = 22).
TrailLength == 2
\* Animation frames and edits explored from an initial state.
MaxSteps == 3

(***************************************************************************)
(* Program constants.                                                      *)
(***************************************************************************)
OFF_PATH_DISTANCE_FOR_MAX_COLOR == 900000
FLOW_LENGTH_MIN == 100000
SCALE_EPSILON == 100
\* emitterConfig.initialSpeed and emitterConfig.particleLifetime
InitialSpeed == 2700000
ParticleLifetime == 7200000
\* flowConfig.timeScale, drag, turbulenceScale, wakeStrength
TimeScale == 1000000
Drag == 800000
TurbulenceScale == 350000
WakeStrength == 1050000

(***************************************************************************)
(* randomUnit: the fractional part of sin(...) * 43758.5453, taken on the  *)
(* fixed-point sine.  The product is reduced modulo 1 term by term so that *)
(* no intermediate exceeds the integer range.                              *)
(***************************************************************************)
FractionOfScaledSine(sine) ==
  LET a        == Abs(sine)
      a1       == a \div K
      a0       == a % K
      whole    == (a1 * 758000 + a0 * 43758) % U
      part     == ((a1 * 5453) \div 10) + ((a0 * 5453) \div 10000)
      positive == (whole + part) % U
  IN  IF sine >= 0 THEN positive ELSE (U - positive) % U

randomUnit(index, channel, simTime) ==
  FractionOfScaledSine(Sin((index + 1) * 12989800 + channel * 78233000 + Mul(simTime, 700000)))

(***************************************************************************)
(* State.                                                                  *)
(***************************************************************************)
VARIABLES
  particles,            \* per slot: positions, velocities, ages, lifetimes, trails,
                        \* particleLaneOrigins, particleLaneDirections,
                        \* particleOffPathAmounts, particleImpactTurbulence
  simTime,
  spawnAccumulator,
  spawnParticleCursor,
  spawnVertexCursor,
  emitterSpawn,         \* emitterNormal, emitterRight, emitterUp, emitterWorldVertices
  obstacleRuntimes,     \* [id, data]
  playbackState,        \* [isPlaying, speed]
  emitter,              \* the emitter entity: [position, rotation, scale]
  emitterConfig,        \* [densityX, densityY, spawnRate]
  flowConfig,           \* [turbulenceStrength, recoveryLength, obstacleInfluenceRadius]
  uiState,              \* [flowSpeed, flowLength]
  obstacles,            \* the obstacle entities of planeEntities, in insertion order
  obstacleCounter,
  selectedPlaneId,      \* emitterId, an obstacle id, or NoSelection for null
  frame,                \* what the last handler did to each particle slot
  spawnLog,             \* the respawns since the last restart, in order
  ticks,                \* animation frames so far
  edits,                \* control-panel, keyboard, pointer and gizmo inputs so far
  probe                 \* applyObstacleInteraction called on its own: arguments and result

\* What simulate and restart write.
simulation == << particles, simTime, spawnAccumulator, spawnParticleCursor,
                 spawnVertexCursor, emitterSpawn, obstacleRuntimes, spawnLog >>

\* What the panel, the keyboard, the pointer and the gizmos write.
scene == << emitter, emitterConfig, flowConfig, uiState, obstacles, obstacleCounter,
            selectedPlaneId >>

vars == << particles, simTime, spawnAccumulator, spawnParticleCursor, spawnVertexCursor,
           emitterSpawn, obstacleRuntimes, playbackState, emitter, emitterConfig,
           flowConfig, uiState, obstacles, obstacleCounter, selectedPlaneId, frame,
           spawnLog, ticks, edits, probe >>

(***************************************************************************)
(* Snapshots taken at the start of a tick and of a restart.                *)
(***************************************************************************)
refreshEmitterSpawnData(e, config) ==
  LET local == buildEmitterLocalVertices(config.densityX, config.densityY)
  IN  [ emitterNormal        |-> computeEmitterWorldNormal(e.rotation),
        emitterRight         |-> VNormalize(Rotate(e.rotation, <<U, 0, 0>>)),
        emitterUp            |-> VNormalize(Rotate(e.rotation, <<0, U, 0>>)),
        emitterWorldVertices |-> [ k \in DOMAIN local |-> ApplyWorldMatrix(e, local[k]) ] ]

refreshObstacleFieldData(entities, config) ==
  [ k \in DOMAIN entities |->
      [ id   |-> entities[k].id,
        data |-> updateObstacleFieldDataFromObject(entities[k], config.obstacleInfluenceRadius,
                                                   WakeStrength) ] ]

getEffectiveSpawnRate(config, ui) ==
  LET lengthScale == Max2(FLOW_LENGTH_MIN, ui.flowLength)
      rate        == Div(config.spawnRate, lengthScale)
  IN  Max2(8 * U, Min2(MaxParticles * 8 * U, rate))

(***************************************************************************)
(* ParticleTrailSystem.                                                    *)
(***************************************************************************)
\* A plausible slip: the age of the slot is left as it was.
respawnParticleKeepingAge(slot, position, velocity, lifetime) ==
  [ slot EXCEPT !.position = position,
                !.velocity = velocity,
                !.lifetime = Max2(50000, lifetime),
                !.trail    = [ t \in 1..TrailLength |-> position ] ]

\* respawnParticle: position, velocity, age, lifetime and trail of one slot.
respawnParticle(slot, position, velocity, lifetime) ==
  [ slot EXCEPT !.position = position,
                !.velocity = velocity,
                !.age      = 0,
                !.lifetime = Max2(50000, lifetime),
                !.trail    = [ t \in 1..TrailLength |-> position ] ]

\* A plausible slip: the trail sample also re-anchors the lane at the particle.
pushTrailSampleAnchoringLane(slot) ==
  [ slot EXCEPT !.trail = [ t \in 1..TrailLength |->
                              IF t = 1 THEN slot.position ELSE slot.trail[t - 1] ],
                !.laneOrigin = slot.position ]

\* pushTrailSample: the history moves one place back, the position enters.
\* A plausible slip: the newest sample is written without shifting the rest.
pushTrailSampleWithoutShift(slot) ==
  [ slot EXCEPT !.trail = [ t \in 1..TrailLength |->
                              IF t = 1 THEN slot.position ELSE slot.trail[t] ] ]

pushTrailSample(slot) ==
  [ slot EXCEPT !.trail = [ t \in 1..TrailLength |->
                              IF t = 1 THEN slot.position ELSE slot.trail[t - 1] ] ]

\* A plausible slip: only the newest sample of a trail is reset.
clearNewestTrailSample(slots) ==
  [ i \in DOMAIN slots |->
      [ slots[i] EXCEPT !.trail[1] = slots[i].position ] ]

\* clearTrailsToCurrentPositions: every sample of every trail is the position.
clearTrailsToCurrentPositions(slots) ==
  [ i \in DOMAIN slots |->
      [ slots[i] EXCEPT !.trail = [ t \in 1..TrailLength |-> slots[i].position ] ] ]

(***************************************************************************)
(* Respawn.  s = [particles, spawnVertexCursor, spawnLog, marks] is        *)
(* threaded through the loops of a handler; env holds what the handler     *)
(* reads, and by which loop the respawn is made.  marks records, per slot,  *)
(* what the handler did to it: was and born hold the slot before and after *)
(* its last respawn in the handler.                                        *)
(***************************************************************************)
\* A plausible slip: the cursor is advanced before it is used.
SkipSpawnVertex(cursor, vertexCount) == (cursor + 1) % vertexCount

\* A plausible slip: the deviation and the weight survive the respawn.
KeepLaneState(slot) == slot

\* particleOffPathAmounts[index] = 0; particleImpactTurbulence[index] = 0
ClearLaneState(slot) == [ slot EXCEPT !.offPath = 0, !.impact = 0 ]

\* const vertexIndex = this.spawnVertexCursor % vertexCount
NextSpawnVertex(cursor, vertexCount) == cursor % vertexCount

respawnParticleAtEmitter(s, index, env) ==
  LET vertexCount == Len(env.spawn.emitterWorldVertices)
  IN  IF vertexCount <= 0 THEN s
      ELSE
        Let([ vertexIndex \in { NextSpawnVertex(s.spawnVertexCursor, vertexCount) },
              jitterA     \in { Mul(randomUnit(index, 0, env.simTime) - (U \div 2), 300000) },
              jitterB     \in { Mul(randomUnit(index, 1, env.simTime) - (U \div 2), 300000) },
              flowLengthScale \in { Sqrt(Max2(FLOW_LENGTH_MIN, env.flowLength)) } |->
        Let([ position  \in { env.spawn.emitterWorldVertices[vertexIndex + 1] },
              velocity  \in { VAddScaled(
                                VAddScaled(VScale(env.spawn.emitterNormal, InitialSpeed),
                                           env.spawn.emitterRight, jitterA),
                                env.spawn.emitterUp, jitterB) },
              lifeScale \in { Mul(720000 + Mul(randomUnit(index, 2, env.simTime), 550000),
                                  flowLengthScale) },
              cleared   \in { ClearLaneState(s.particles[index + 1]) } |->
        Let([ respawned \in { respawnParticle(cleared, position, velocity,
                                              Mul(ParticleLifetime, lifeScale)) } |->
        Let([ born \in { [ respawned EXCEPT !.laneOrigin    = position,
                                            !.laneDirection = env.spawn.emitterNormal ] } |->
          [ s EXCEPT
              !.particles[index + 1] = born,
              !.spawnVertexCursor = s.spawnVertexCursor + 1,
              !.spawnLog = Append(s.spawnLog,
                                  [ index |-> index, vertexIndex |-> vertexIndex,
                                    vertexCount |-> vertexCount,
                                    vertex |-> position, by |-> env.by ]),
              !.marks[index + 1].was  = << s.particles[index + 1] >>,
              !.marks[index + 1].born = << born >> ] ]) ]) ]) ])

RECURSIVE RestartLoop(_, _, _)
RestartLoop(s, i, env) ==
  IF i >= MaxParticles THEN s
  ELSE
    Let([ r             \in { respawnParticleAtEmitter(s, i, env) },
          startDistance \in { Max2(500000, Mul(env.flowLength, 900000)) },
          phase         \in { 20000 + Mul(randomUnit(i, 5, env.simTime), 960000) } |->
    Let([ slot \in { r.particles[i + 1] } |->
    Let([ placed \in { [ slot EXCEPT
                           !.age      = Mul(slot.lifetime, phase),
                           !.position = VAddScaled(slot.laneOrigin, slot.laneDirection,
                                                   Mul(startDistance, phase)) ] } |->
      RestartLoop([ r EXCEPT !.particles[i + 1] = placed ], i + 1, env) ]) ]) ])

initializeRestartParticleDistribution(s, env) == RestartLoop(s, 0, env)

(***************************************************************************)
(* The per-particle steps of simulate.                                     *)
(***************************************************************************)
\* A plausible slip: the lateral distance is normalised without the guard on
\* the forward distance.
computeOffPathBehindToo(laneOrigin, laneDirection, worldPosition) ==
  Let([ forwardDistance \in { VDot(VSub(worldPosition, laneOrigin), laneDirection) } |->
  Let([ laneTarget \in { VAdd(VScale(laneDirection, forwardDistance), laneOrigin) } |->
  Let([ lateralDistance \in { VLength(VSub(worldPosition, laneTarget)) } |->
    Min2(U, Max2(0, Div(lateralDistance, OFF_PATH_DISTANCE_FOR_MAX_COLOR))) ]) ]) ])

computeNormalizedOffPath(laneOrigin, laneDirection, worldPosition) ==
  Let([ forwardDistance \in { VDot(VSub(worldPosition, laneOrigin), laneDirection) } |->
  Let([ laneTarget \in { VAdd(VScale(laneDirection, forwardDistance), laneOrigin) } |->
  Let([ lateralDistance \in { VLength(VSub(worldPosition, laneTarget)) } |->
  Let([ normalized \in { Div(lateralDistance, OFF_PATH_DISTANCE_FOR_MAX_COLOR) } |->
    IF forwardDistance <= 0 THEN 0 ELSE Min2(U, Max2(0, normalized)) ]) ]) ]) ])

\* A plausible slip: contact does not stop the recovery.
SkipsRecoveryOffLaneOnly(nearObstacleSurface, forwardDistance, lateralError) ==
  forwardDistance <= 0 \/ lateralError <= 100

\* The early returns of applyLaneRecovery.
SkipsLaneRecovery(nearObstacleSurface, forwardDistance, lateralError) ==
  nearObstacleSurface \/ forwardDistance <= 0 \/ lateralError <= 100

\* applyLaneRecovery: the velocity it leaves, and whether it steered.
\* A plausible slip: the recovery step is not capped at 0.35.
applyLaneRecoveryUncapped(slot, position, velocity, dt, nearObstacleSurface, recoveryLength) ==
  Let([ forwardDistance \in { VDot(VSub(position, slot.laneOrigin), slot.laneDirection) } |->
  Let([ laneTarget \in { VAdd(VScale(slot.laneDirection, forwardDistance), slot.laneOrigin) } |->
  Let([ steering \in { VSub(laneTarget, position) } |->
  Let([ lateralError \in { VLength(steering) } |->
    LET recoveryDistance == Max2(100000, recoveryLength)
        forwardSpeed     == Max2(200000, Abs(VDot(velocity, slot.laneDirection)))
        recoveryRate     == Mul(Div(forwardSpeed, recoveryDistance), 1200000)
        recoveryStep     == Mul(recoveryRate, dt)
    IN  IF SkipsLaneRecovery(nearObstacleSurface, forwardDistance, lateralError)
        THEN [ velocity |-> velocity, steered |-> FALSE,
               forwardDistance |-> forwardDistance, lateralError |-> lateralError ]
        ELSE [ velocity |-> VAddScaled(velocity, steering, recoveryStep), steered |-> TRUE,
               forwardDistance |-> forwardDistance, lateralError |-> lateralError ]
  ]) ]) ]) ])

applyLaneRecovery(slot, position, velocity, dt, nearObstacleSurface, recoveryLength) ==
  Let([ forwardDistance \in { VDot(VSub(position, slot.laneOrigin), slot.laneDirection) } |->
  Let([ laneTarget \in { VAdd(VScale(slot.laneDirection, forwardDistance), slot.laneOrigin) } |->
  Let([ steering \in { VSub(laneTarget, position) } |->
  Let([ lateralError \in { VLength(steering) } |->
    LET recoveryDistance == Max2(100000, recoveryLength)
        forwardSpeed     == Max2(200000, Abs(VDot(velocity, slot.laneDirection)))
        recoveryRate     == Mul(Div(forwardSpeed, recoveryDistance), 1200000)
        recoveryStep     == Min2(350000, Mul(recoveryRate, dt))
    IN  IF SkipsLaneRecovery(nearObstacleSurface, forwardDistance, lateralError)
        THEN [ velocity |-> velocity, steered |-> FALSE,
               forwardDistance |-> forwardDistance, lateralError |-> lateralError ]
        ELSE [ velocity |-> VAddScaled(velocity, steering, recoveryStep), steered |-> TRUE,
               forwardDistance |-> forwardDistance, lateralError |-> lateralError ]
  ]) ]) ]) ])

\* The loop over obstacleRuntimes: r = [position, velocity, near, hits], near
\* being the disjunction of the values applyObstacleInteraction returned so
\* far and hits the values themselves.
\* A plausible slip: the offset to the centre is computed in place, in the
\* descriptor's centre.
DescriptorWithCenterMoved(obstacle, position) ==
  [ obstacle EXCEPT !.center = VSub(position, obstacle.center) ]

\* The descriptor after applyObstacleInteraction(position, velocity,
\* obstacle, ...): the call reads its fields and writes none.
DescriptorAfterInteraction(obstacle, position) == obstacle

RECURSIVE ObstacleLoop(_, _, _, _)
ObstacleLoop(r, runtimes, k, env) ==
  IF k > Len(runtimes)
  THEN [ position |-> r.position, velocity |-> r.velocity, near |-> r.near,
         hits |-> r.hits, runtimes |-> runtimes ]
  ELSE
    Let([ out \in { applyObstacleInteraction(r.position, r.velocity, runtimes[k].data,
                                             env.spawn.emitterNormal, env.simTime,
                                             TurbulenceScale, 0) } |->
      ObstacleLoop([ position |-> out.position, velocity |-> out.velocity,
                     near |-> r.near \/ out.nearSurface,
                     hits |-> Append(r.hits, out.nearSurface) ],
                   [ runtimes EXCEPT ![k].data = DescriptorAfterInteraction(@, r.position) ],
                   k + 1, env) ])

\* A plausible slip: the kick is given whatever the particle's weight.
KickRegardlessOfWeight(position, velocity, impactTurbulenceWeight, dt, env) ==
  IF env.turbulenceStrength > 10
  THEN Let([ noise \in { sampleCurlNoise(position, env.simTime, TurbulenceScale) } |->
       Let([ turbulence \in { VAddScaled(noise, env.spawn.emitterNormal,
                                         -VDot(noise, env.spawn.emitterNormal)) } |->
         IF VLengthSq(turbulence) > 1
         THEN VAddScaled(velocity, VNormalize(turbulence),
                         Mul(Mul(env.turbulenceStrength, dt), 2250000))
         ELSE velocity ]) ])
  ELSE velocity

\* A plausible slip: the noise is normalised without its component along
\* the emitter normal being taken out.
ImpactTurbulenceUnprojected(position, velocity, impactTurbulenceWeight, dt, env) ==
  IF impactTurbulenceWeight > 100 /\ env.turbulenceStrength > 10
  THEN Let([ turbulence \in { sampleCurlNoise(position, env.simTime, TurbulenceScale) } |->
         IF VLengthSq(turbulence) > 1
         THEN VAddScaled(velocity, VNormalize(turbulence),
                         Mul(Mul(Mul(env.turbulenceStrength, impactTurbulenceWeight), dt),
                             2250000))
         ELSE velocity ])
  ELSE velocity

\* The curl-noise kick a particle with impact weight receives.
ImpactTurbulence(position, velocity, impactTurbulenceWeight, dt, env) ==
  IF impactTurbulenceWeight > 100 /\ env.turbulenceStrength > 10
  THEN Let([ noise \in { sampleCurlNoise(position, env.simTime, TurbulenceScale) } |->
       Let([ turbulence \in { VAddScaled(noise, env.spawn.emitterNormal,
                                         -VDot(noise, env.spawn.emitterNormal)) } |->
         IF VLengthSq(turbulence) > 1
         THEN VAddScaled(velocity, VNormalize(turbulence),
                         Mul(Mul(Mul(env.turbulenceStrength, impactTurbulenceWeight), dt),
                             2250000))
         ELSE velocity ]) ])
  ELSE velocity

\* A plausible slip: the weight relaxes in a tick with contact too.
RelaxRegardlessOfContact(weight, normalizedOffPath, nearObstacleSurface, dt, recoveryLength) ==
  IF weight > 0
  THEN LET targetWeight     == Min2(U, normalizedOffPath * 2)
           recoveryDistance == Max2(100000, recoveryLength)
           blend            == Min2(U, Mul(dt, 1200000 + Div(2800000, recoveryDistance)))
       IN  Let([ relaxedWeight \in { weight + Mul(targetWeight - weight, blend) } |->
             IF relaxedWeight < 20000 /\ normalizedOffPath < 10000 THEN 0 ELSE relaxedWeight ])
  ELSE weight

\* A plausible slip: the weight relaxes without the snap to 0.
RelaxWithoutSnap(weight, normalizedOffPath, nearObstacleSurface, dt, recoveryLength) ==
  IF nearObstacleSurface THEN U
  ELSE IF weight > 0
  THEN LET targetWeight     == Min2(U, normalizedOffPath * 2)
           recoveryDistance == Max2(100000, recoveryLength)
           blend            == Min2(U, Mul(dt, 1200000 + Div(2800000, recoveryDistance)))
       IN  weight + Mul(targetWeight - weight, blend)
  ELSE weight

\* The impact weight at the end of a particle's update.
RelaxImpactTurbulence(weight, normalizedOffPath, nearObstacleSurface, dt, recoveryLength) ==
  IF nearObstacleSurface THEN U
  ELSE IF weight > 0
  THEN LET targetWeight     == Min2(U, normalizedOffPath * 2)
           recoveryDistance == Max2(100000, recoveryLength)
           blend            == Min2(U, Mul(dt, 1200000 + Div(2800000, recoveryDistance)))
       IN  Let([ relaxedWeight \in { weight + Mul(targetWeight - weight, blend) } |->
             IF relaxedWeight < 20000 /\ normalizedOffPath < 10000 THEN 0 ELSE relaxedWeight ])
  ELSE weight

\* One particle that did not expire: lines from the flow relaxation to the
\* trail sample.  The result carries the slot and what happened to it.
\* A plausible slip: the position is integrated before the drag is applied.
UpdateParticleMovingBeforeDrag(slot, dt, dragScale, env) ==
  Let([ baseFlow \in { VScale(env.spawn.emitterNormal, InitialSpeed) } |->
  Let([ relaxed \in { VAddScaled(slot.velocity, VSub(baseFlow, slot.velocity),
                                 Min2(U, Mul(dt, 1400000))) } |->
  Let([ hit \in { ObstacleLoop([ position |-> slot.position, velocity |-> relaxed,
                                 near |-> FALSE, hits |-> << >> ],
                               env.runtimes, 1, env) } |->
  Let([ impacted \in { IF hit.near THEN U ELSE slot.impact } |->
  Let([ kicked \in { ImpactTurbulence(hit.position, hit.velocity, impacted, dt, env) } |->
  Let([ lane \in { applyLaneRecovery(slot, hit.position, kicked, dt, hit.near,
                                     env.recoveryLength) } |->
  Let([ velocity \in { VScale(lane.velocity, dragScale) } |->
  Let([ position \in { VAddScaled(hit.position, lane.velocity, dt) } |->
  Let([ normalizedOffPath \in { computeNormalizedOffPath(slot.laneOrigin, slot.laneDirection,
                                                         position) } |->
  Let([ weight \in { RelaxImpactTurbulence(impacted, normalizedOffPath, hit.near, dt,
                                           env.recoveryLength) } |->
    [ slot    |-> pushTrailSample([ slot EXCEPT !.position = position,
                                                !.velocity = velocity,
                                                !.offPath  = normalizedOffPath,
                                                !.impact   = weight ]),
      touched |-> hit.near,
      hits    |-> hit.hits,
      steered |-> lane.steered,
      laneForward |-> lane.forwardDistance,
      laneError   |-> lane.lateralError,
      kicked  |-> kicked # hit.velocity,
      kickForward |-> VDot(kicked, env.spawn.emitterNormal)
                        - VDot(hit.velocity, env.spawn.emitterNormal),
      runtimes |-> hit.runtimes ]
  ]) ]) ]) ]) ]) ]) ]) ]) ]) ])

UpdateParticle(slot, dt, dragScale, env) ==
  Let([ baseFlow \in { VScale(env.spawn.emitterNormal, InitialSpeed) } |->
  Let([ relaxed \in { VAddScaled(slot.velocity, VSub(baseFlow, slot.velocity),
                                 Min2(U, Mul(dt, 1400000))) } |->
  Let([ hit \in { ObstacleLoop([ position |-> slot.position, velocity |-> relaxed,
                                 near |-> FALSE, hits |-> << >> ],
                               env.runtimes, 1, env) } |->
  Let([ impacted \in { IF hit.near THEN U ELSE slot.impact } |->
  Let([ kicked \in { ImpactTurbulence(hit.position, hit.velocity, impacted, dt, env) } |->
  Let([ lane \in { applyLaneRecovery(slot, hit.position, kicked, dt, hit.near,
                                     env.recoveryLength) } |->
  Let([ velocity \in { VScale(lane.velocity, dragScale) } |->
  Let([ position \in { VAddScaled(hit.position, velocity, dt) } |->
  Let([ normalizedOffPath \in { computeNormalizedOffPath(slot.laneOrigin, slot.laneDirection,
                                                         position) } |->
  Let([ weight \in { RelaxImpactTurbulence(impacted, normalizedOffPath, hit.near, dt,
                                           env.recoveryLength) } |->
    [ slot    |-> pushTrailSample([ slot EXCEPT !.position = position,
                                                !.velocity = velocity,
                                                !.offPath  = normalizedOffPath,
                                                !.impact   = weight ]),
      touched |-> hit.near,
      hits    |-> hit.hits,
      steered |-> lane.steered,
      laneForward |-> lane.forwardDistance,
      laneError   |-> lane.lateralError,
      kicked  |-> kicked # hit.velocity,
      kickForward |-> VDot(kicked, env.spawn.emitterNormal)
                        - VDot(hit.velocity, env.spawn.emitterNormal),
      runtimes |-> hit.runtimes ]
  ]) ]) ]) ]) ]) ]) ]) ]) ]) ])

(***************************************************************************)
(* simulate.                                                               *)
(***************************************************************************)
NoMarks ==
  [ i \in 1..MaxParticles |->
      [ spawned |-> FALSE, expired |-> FALSE, updated |-> FALSE,
        touched |-> FALSE, hits |-> << >>, steered |-> FALSE, kicked |-> FALSE,
        laneForward |-> 0, laneError |-> 0, kickForward |-> 0,
        was |-> << >>, born |-> << >> ] ]

\* while (spawnAccumulator >= 1) { respawn at the cursor; advance; subtract }
RECURSIVE SpawnLoop(_, _, _, _)
SpawnLoop(s, cursor, accumulator, env) ==
  IF accumulator >= U
  THEN Let([ spawned \in { [ respawnParticleAtEmitter(s, cursor, [ env EXCEPT !.by = "rate" ])
                               EXCEPT !.marks[cursor + 1].spawned = TRUE ] } |->
         SpawnLoop(spawned, (cursor + 1) % MaxParticles, accumulator - U, env) ])
  ELSE [ s |-> s, cursor |-> cursor, accumulator |-> accumulator ]

\* A plausible slip: the velocity scratch vector is not loaded from the
\* slot, so the update starts from the velocity of the slot before.
StepParticleKeepingScratch(s, i, dt, dragScale, env) ==
  Let([ aged \in { [ s.particles[i + 1] EXCEPT
                       !.age = @ + dt,
                       !.velocity = s.particles[IF i = 0 THEN MaxParticles ELSE i].velocity ] } |->
    IF aged.age >= aged.lifetime
    THEN [ respawnParticleAtEmitter([ s EXCEPT !.particles[i + 1] = aged ],
                                    i, [ env EXCEPT !.by = "expiry" ])
             EXCEPT !.marks[i + 1].expired = TRUE ]
    ELSE Let([ u \in { UpdateParticle(aged, dt, dragScale,
                                       [ env EXCEPT !.runtimes = s.runtimes ]) } |->
           [ s EXCEPT !.particles[i + 1] = u.slot,
                      !.runtimes = u.runtimes,
                      !.marks[i + 1].updated = TRUE,
                      !.marks[i + 1].touched = u.touched,
                      !.marks[i + 1].hits    = u.hits,
                      !.marks[i + 1].steered = u.steered,
                      !.marks[i + 1].laneForward = u.laneForward,
                      !.marks[i + 1].laneError   = u.laneError,
                      !.marks[i + 1].kicked  = u.kicked,
                      !.marks[i + 1].kickForward = u.kickForward ] ]) ])

\* One pass of the loop body for slot i: age; respawn, or update.
\* A plausible slip: the respawn of an expired particle is not followed by
\* continue, so the fresh particle is updated in the same tick.
StepParticleWithoutContinue(s, i, dt, dragScale, env) ==
  Let([ aged \in { [ s.particles[i + 1] EXCEPT !.age = @ + dt ] } |->
    IF aged.age >= aged.lifetime
    THEN Let([ r \in { respawnParticleAtEmitter([ s EXCEPT !.particles[i + 1] = aged ],
                                                 i, [ env EXCEPT !.by = "expiry" ]) } |->
         Let([ v \in { UpdateParticle(r.particles[i + 1], dt, dragScale,
                                       [ env EXCEPT !.runtimes = s.runtimes ]) } |->
           [ r EXCEPT !.particles[i + 1] = v.slot,
                      !.marks[i + 1].expired = TRUE ] ]) ])
    ELSE Let([ u \in { UpdateParticle(aged, dt, dragScale,
                                       [ env EXCEPT !.runtimes = s.runtimes ]) } |->
           [ s EXCEPT !.particles[i + 1] = u.slot,
                      !.runtimes = u.runtimes,
                      !.marks[i + 1].updated = TRUE,
                      !.marks[i + 1].touched = u.touched,
                      !.marks[i + 1].hits    = u.hits,
                      !.marks[i + 1].steered = u.steered,
                      !.marks[i + 1].laneForward = u.laneForward,
                      !.marks[i + 1].laneError   = u.laneError,
                      !.marks[i + 1].kicked  = u.kicked,
                      !.marks[i + 1].kickForward = u.kickForward ] ]) ])

StepParticle(s, i, dt, dragScale, env) ==
  Let([ aged \in { [ s.particles[i + 1] EXCEPT !.age = @ + dt ] } |->
    IF aged.age >= aged.lifetime
    THEN [ respawnParticleAtEmitter([ s EXCEPT !.particles[i + 1] = aged ],
                                    i, [ env EXCEPT !.by = "expiry" ])
             EXCEPT !.marks[i + 1].expired = TRUE ]
    ELSE Let([ u \in { UpdateParticle(aged, dt, dragScale,
                                       [ env EXCEPT !.runtimes = s.runtimes ]) } |->
           [ s EXCEPT !.particles[i + 1] = u.slot,
                      !.runtimes = u.runtimes,
                      !.marks[i + 1].updated = TRUE,
                      !.marks[i + 1].touched = u.touched,
                      !.marks[i + 1].hits    = u.hits,
                      !.marks[i + 1].steered = u.steered,
                      !.marks[i + 1].laneForward = u.laneForward,
                      !.marks[i + 1].laneError   = u.laneError,
                      !.marks[i + 1].kicked  = u.kicked,
                      !.marks[i + 1].kickForward = u.kickForward ] ]) ])

\* for (i = 0; i < maxParticles; i += 1) { age; respawn and continue, or update }
RECURSIVE ParticleLoop(_, _, _, _, _)
ParticleLoop(s, i, dt, dragScale, env) ==
  IF i >= MaxParticles THEN s
  ELSE ParticleLoop(StepParticle(s, i, dt, dragScale, env), i + 1, dt, dragScale, env)

\* simulate(dt) on the particle arrays slots: every variable it writes, as
\* one record.
simulateFrom(slots, dt) ==
  Let([ env \in { [ simTime            |-> simTime + dt,
                    spawn              |-> refreshEmitterSpawnData(emitter, emitterConfig),
                    runtimes           |-> refreshObstacleFieldData(obstacles, flowConfig),
                    flowLength         |-> uiState.flowLength,
                    turbulenceStrength |-> flowConfig.turbulenceStrength,
                    recoveryLength     |-> flowConfig.recoveryLength,
                    by                 |-> "none" ] } |->
  Let([ spawnedSome \in { SpawnLoop([ particles |-> slots,
                                      spawnVertexCursor |-> spawnVertexCursor,
                                      spawnLog |-> spawnLog, marks |-> NoMarks,
                                      runtimes |-> env.runtimes ],
                                    spawnParticleCursor,
                                    spawnAccumulator + Mul(dt, getEffectiveSpawnRate(emitterConfig, uiState)),
                                    env) } |->
    [ env |-> env,
      done |-> ParticleLoop(spawnedSome.s, 0, dt, ExpNeg(Mul(Drag, dt)), env),
      cursor |-> spawnedSome.cursor,
      accumulator |-> spawnedSome.accumulator ] ]) ])

simulate(dt) == simulateFrom(particles, dt)

(***************************************************************************)
(* restart and the state it leaves.                                        *)
(***************************************************************************)
\* The arrays of a freshly constructed ParticleTrailSystem and application.
BlankSlot ==
  [ position |-> Zero3, velocity |-> Zero3, age |-> 0, lifetime |-> 0,
    trail |-> [ t \in 1..TrailLength |-> Zero3 ],
    laneOrigin |-> Zero3, laneDirection |-> Zero3, offPath |-> 0, impact |-> 0 ]

\* restart(): simTime, the accumulator and the cursors are zeroed, the
\* snapshots refreshed, every slot respawned and spread along its lane, and
\* the trails collapsed onto the positions.
restart(slots, em, emConfig, flow, ui, entities) ==
  Let([ env \in { [ simTime            |-> 0,
                    spawn              |-> refreshEmitterSpawnData(em, emConfig),
                    runtimes           |-> refreshObstacleFieldData(entities, flow),
                    flowLength         |-> ui.flowLength,
                    turbulenceStrength |-> flow.turbulenceStrength,
                    recoveryLength     |-> flow.recoveryLength,
                    by                 |-> "restart" ] } |->
  Let([ done \in { initializeRestartParticleDistribution(
                     [ particles |-> slots, spawnVertexCursor |-> 0, spawnLog |-> << >>,
                       marks |-> NoMarks ],
                     env) } |->
    [ env |-> env,
      done |-> [ done EXCEPT !.particles = clearTrailsToCurrentPositions(done.particles) ] ] ]) ])

\* updateSpawnRateFromDensity
updateSpawnRateFromDensity(config) ==
  [ config EXCEPT !.spawnRate =
      computeSpawnRateFromVertexCount(getEmitterVertexCount(config.densityX, config.densityY),
                                      MaxParticles) ]

NoProbe == [ calls |-> 0 ]

\* The id of the emitter entity, the ids addObstacle... gives, and the
\* selection when nothing is selected (null).
emitterId == "emitter-1"
ObstacleIds == << "obstacle-1", "obstacle-2", "obstacle-3", "obstacle-4" >>
NoSelection == "null"

\* The state restart() leaves in a scene: the emitter, the obstacles and the
\* settings the control panel and the gizmos have put in place.
SceneStateSelecting(sc, selected) ==
  \E emConfig \in { updateSpawnRateFromDensity([ densityX |-> sc.densityX,
                                                 densityY |-> sc.densityY,
                                                 spawnRate |-> U ]) } :
  \E flow \in { [ turbulenceStrength      |-> sc.turbulence,
                   recoveryLength          |-> sc.recoveryLength,
                   obstacleInfluenceRadius |-> sc.impactBuffer ] } :
  \E ui \in { [ flowSpeed |-> sc.flowSpeed, flowLength |-> sc.flowLength ] } :
  \E r \in { restart([ i \in 1..MaxParticles |-> BlankSlot ], sc.emitter, emConfig,
                      flow, ui, sc.obstacles) } :
      /\ particles = r.done.particles
      /\ simTime = 0
      /\ spawnAccumulator = 0
      /\ spawnParticleCursor = 0
      /\ spawnVertexCursor = r.done.spawnVertexCursor
      /\ playbackState = [ isPlaying |-> TRUE, speed |-> sc.flowSpeed ]
      /\ emitter = sc.emitter
      /\ emitterConfig = emConfig
      /\ emitterSpawn = r.env.spawn
      /\ flowConfig = flow
      /\ uiState = ui
      /\ obstacles = sc.obstacles
      /\ obstacleCounter = Len(sc.obstacles)
      /\ selectedPlaneId = selected
      /\ edits = 0
      /\ obstacleRuntimes = r.env.runtimes
      /\ frame = [ op |-> "restart", dt |-> 0, marks |-> r.done.marks ]
      /\ spawnLog = r.done.spawnLog
      /\ ticks = 0

\* The same with the emitter selected.
SceneState(sc) == SceneStateSelecting(sc, emitterId)

(***************************************************************************)
(* Handlers.                                                               *)
(***************************************************************************)
\* The frame times the browser may report between two animation frames.
FrameDeltas == { 1000, 200000 }

\* A plausible slip: the frame ticks the simulation whatever the playback.
FrameSimulatesAlways == TRUE

\* if (this.playbackState.isPlaying): the frame ticks the simulation.
FrameSimulates == playbackState.isPlaying

\* A plausible slip: the frame interval is used without the clamp.
animationLoopUnclamped(rawDelta) ==
  \E dt \in { rawDelta } :
  \E scaledDt \in { Mul(Mul(dt, Max2(50000, playbackState.speed)), TimeScale) } :
      /\ ticks + edits < MaxSteps
      /\ ticks' = ticks + 1
      /\ IF FrameSimulates
         THEN \E r \in { simulate(scaledDt) } :
              /\ simTime' = r.env.simTime
              /\ emitterSpawn' = r.env.spawn
              /\ obstacleRuntimes' = r.done.runtimes
              /\ spawnAccumulator' = r.accumulator
              /\ spawnParticleCursor' = r.cursor
              /\ particles' = r.done.particles
              /\ spawnVertexCursor' = r.done.spawnVertexCursor
              /\ spawnLog' = r.done.spawnLog
              /\ frame' = [ op |-> "simulate", dt |-> scaledDt, marks |-> r.done.marks ]
         ELSE /\ frame' = [ op |-> "idle", dt |-> 0, marks |-> NoMarks ]
              /\ UNCHANGED simulation
      /\ UNCHANGED << playbackState, scene, edits, probe >>

\* animationLoop: one animation frame, rawDelta seconds after the last.
animationLoop(rawDelta) ==
  \E dt \in { Min2(50000, Max2(U \div 240, rawDelta)) } :
  \E scaledDt \in { Mul(Mul(dt, Max2(50000, playbackState.speed)), TimeScale) } :
      /\ ticks + edits < MaxSteps
      /\ ticks' = ticks + 1
      /\ IF FrameSimulates
         THEN \E r \in { simulate(scaledDt) } :
              /\ simTime' = r.env.simTime
              /\ emitterSpawn' = r.env.spawn
              /\ obstacleRuntimes' = r.done.runtimes
              /\ spawnAccumulator' = r.accumulator
              /\ spawnParticleCursor' = r.cursor
              /\ particles' = r.done.particles
              /\ spawnVertexCursor' = r.done.spawnVertexCursor
              /\ spawnLog' = r.done.spawnLog
              /\ frame' = [ op |-> "simulate", dt |-> scaledDt, marks |-> r.done.marks ]
         ELSE /\ frame' = [ op |-> "idle", dt |-> 0, marks |-> NoMarks ]
              /\ UNCHANGED simulation
      /\ UNCHANGED << playbackState, scene, edits, probe >>

Tick == \E rawDelta \in FrameDeltas : animationLoop(rawDelta)

\* A plausible slip: restart leaves a paused playback paused.
restartPlaybackKeepingPause(state) == state

\* restartPlayback(state)
restartPlayback(state) == [ state EXCEPT !.isPlaying = TRUE ]

\* The restart button.
Restart ==
  \E r \in { restart(particles, emitter, emitterConfig, flowConfig, uiState, obstacles) } :
      /\ playbackState' = restartPlayback(playbackState)
      /\ simTime' = 0
      /\ spawnAccumulator' = 0
      /\ spawnParticleCursor' = 0
      /\ emitterSpawn' = r.env.spawn
      /\ obstacleRuntimes' = r.env.runtimes
      /\ particles' = r.done.particles
      /\ spawnVertexCursor' = r.done.spawnVertexCursor
      /\ spawnLog' = r.done.spawnLog
      /\ frame' = [ op |-> "restart", dt |-> 0, marks |-> r.done.marks ]
      /\ UNCHANGED << scene, ticks, edits, probe >>

\* The play and pause buttons.
Play ==
  /\ playbackState' = [ playbackState EXCEPT !.isPlaying = TRUE ]
  /\ frame' = [ op |-> "play", dt |-> 0, marks |-> NoMarks ]
  /\ UNCHANGED << simulation, scene, ticks, edits, probe >>

Pause ==
  /\ playbackState' = [ playbackState EXCEPT !.isPlaying = FALSE ]
  /\ frame' = [ op |-> "pause", dt |-> 0, marks |-> NoMarks ]
  /\ UNCHANGED << simulation, scene, ticks, edits, probe >>

(***************************************************************************)
(* Scenes: arrangements of emitter, obstacles and settings the handlers of *)
(* the panel and the gizmos produce, from which the flow is explored.      *)
(***************************************************************************)
\* The emitter as createEmitterEntity leaves it.
DefaultEmitter ==
  [ position |-> <<0, 1400000, -2800000>>, rotation |-> RotIdentity, scale |-> <<U, U, U>> ]

Obstacle(n, kind, position, rotation) ==
  [ id |-> ObstacleIds[n], kind |-> kind, position |-> position, rotation |-> rotation,
    scale |-> InitialScale(kind) ]

\* The settings of the constructor, on a coarse emitter grid.
BaseScene ==
  [ flowSpeed |-> 5 * U, flowLength |-> 6 * U, turbulence |-> 0, recoveryLength |-> U,
    impactBuffer |-> 100000, densityX |-> 1, densityY |-> 1,
    emitter |-> DefaultEmitter, obstacles |-> << >> ]

\* Places an obstacle is dragged to: ahead of the first slot's restart
\* position, onto it, beside its lane, and just ahead of an emitter vertex.
AheadOfFirstSlot == <<-1000000, 800000, 2100000>>
OnFirstSlot == <<-900000, 800000, 1600000>>
BesideFirstLane == <<-1500000, 800000, 1700000>>
AheadOfVertex == <<-1000000, 2000000, -2755000>>

ObstaclePlaces == { AheadOfFirstSlot, OnFirstSlot, BesideFirstLane, AheadOfVertex }

OneObstacleScenes ==
  { [ BaseScene EXCEPT !.obstacles = << Obstacle(1, kind, place, RotIdentity) >> ] :
      kind \in ShapeKinds, place \in ObstaclePlaces }

\* One box ahead of the first slot, under other settings.
BoxScene == [ BaseScene EXCEPT !.obstacles = << Obstacle(1, "box", AheadOfFirstSlot, RotIdentity) >> ]

SettingScenes ==
  { [ BaseScene EXCEPT !.flowSpeed = U ],
    [ BaseScene EXCEPT !.flowSpeed = 40 * U, !.flowLength = 100000 ],
    [ BaseScene EXCEPT !.densityX = 2 ],
    [ BoxScene EXCEPT !.flowSpeed = U ],
    [ BoxScene EXCEPT !.turbulence = U ],
    [ BoxScene EXCEPT !.turbulence = U, !.recoveryLength = 100000, !.flowSpeed = U ],
    [ BaseScene EXCEPT !.turbulence = U,
                       !.obstacles = << Obstacle(1, "sphere", AheadOfVertex, RotIdentity) >> ],
    [ BaseScene EXCEPT !.turbulence = U,
                       !.obstacles = << Obstacle(1, "sphere", AheadOfVertex, RotIdentity),
                                        Obstacle(2, "sphere", <<-1000000, 2000000, -6600000>>,
                                                 RotIdentity) >> ],
    [ BoxScene EXCEPT !.recoveryLength = 100000 ],
    [ BoxScene EXCEPT !.impactBuffer = 500000 ],
    [ BoxScene EXCEPT !.emitter.rotation = RotTiltY ],
    [ BoxScene EXCEPT !.obstacles = << Obstacle(1, "box", BesideFirstLane, RotTiltY),
                                       Obstacle(2, "sphere", AheadOfFirstSlot, RotIdentity) >> ],
    [ BoxScene EXCEPT !.obstacles = << Obstacle(1, "pyramid", AheadOfVertex, RotIdentity),
                                       Obstacle(2, "sphere", AheadOfFirstSlot, RotIdentity) >> ],
    [ BoxScene EXCEPT !.obstacles = << Obstacle(1, "plane", AheadOfVertex, RotIdentity),
                                       Obstacle(2, "torus", OnFirstSlot, RotQuarterY) >>,
                      !.flowSpeed = U ] }

Scenes == { BaseScene } \cup OneObstacleScenes \cup SettingScenes

InitFlow == /\ \E sc \in Scenes : SceneState(sc)
            /\ probe = NoProbe

NextFlow == Tick \/ Restart \/ Play \/ Pause

SpecFlow == InitFlow /\ [][NextFlow]_vars

(***************************************************************************)
(* The application from its constructed state: the handlers of the control *)
(* panel, the keyboard, the pointer and the transform gizmos, next to the  *)
(* animation frames and the playback buttons.                              *)
(***************************************************************************)
\* Edits explored from the constructed state.
MaxEdits == 2
\* Segments of the emitter grid per axis in the constructed state (the
\* program constructs 20 by 12).
InitialDensity == 1

\* createObstacleFieldData(): the snapshot a new runtime holds until the
\* next refreshObstacleFieldData.
createObstacleFieldData ==
  [ shapeKind        |-> "plane",
    center           |-> Zero3,
    world            |-> [ position |-> Zero3, rotation |-> RotIdentity, scale |-> <<U, U, U>> ],
    scaleX           |-> U,
    scaleY           |-> U,
    scaleZ           |-> U,
    halfWidth        |-> 500000,
    halfHeight       |-> 500000,
    halfDepth        |-> 10000,
    boundingRadius   |-> Sqrt(Mul(500000, 500000) + Mul(500000, 500000) + Mul(10000, 10000)),
    sphereRadius     |-> 500000,
    torusMajorRadius |-> 340000,
    torusMinorRadius |-> 160000,
    influenceRadius  |-> 450000,
    wakeStrength     |-> 800000 ]

\* What every handler other than the animation frame and restart leaves
\* alone, and the note it leaves in frame.
Edited(op) ==
  /\ edits < MaxEdits
  /\ ticks + edits < MaxSteps
  /\ edits' = edits + 1
  /\ frame' = [ op |-> op, dt |-> 0, marks |-> NoMarks ]
  /\ UNCHANGED << ticks, probe >>

\* The range controls of the panel.
SetFlowSpeed ==
  \E value \in { 40 * U } :
    /\ Edited("flowSpeed")
    /\ uiState' = [ uiState EXCEPT !.flowSpeed = value ]
    /\ playbackState' = [ playbackState EXCEPT !.speed = value ]
    /\ UNCHANGED << simulation, emitter, emitterConfig, flowConfig, obstacles,
                    obstacleCounter, selectedPlaneId >>

SetFlowLength ==
  \E value \in { 100000 } :
    /\ Edited("flowLength")
    /\ uiState' = [ uiState EXCEPT !.flowLength = value ]
    /\ UNCHANGED << simulation, playbackState, emitter, emitterConfig, flowConfig, obstacles,
                    obstacleCounter, selectedPlaneId >>

SetTurbulence ==
  \E value \in { U } :
    /\ Edited("turbulence")
    /\ flowConfig' = [ flowConfig EXCEPT !.turbulenceStrength = value ]
    /\ UNCHANGED << simulation, playbackState, emitter, emitterConfig, uiState, obstacles,
                    obstacleCounter, selectedPlaneId >>

SetRecoveryLength ==
  \E value \in { 100000 } :
    /\ Edited("recoveryLength")
    /\ flowConfig' = [ flowConfig EXCEPT !.recoveryLength = value ]
    /\ UNCHANGED << simulation, playbackState, emitter, emitterConfig, uiState, obstacles,
                    obstacleCounter, selectedPlaneId >>

SetImpactBuffer ==
  \E value \in { 500000 } :
    /\ Edited("impactBuffer")
    /\ flowConfig' = [ flowConfig EXCEPT !.obstacleInfluenceRadius = value ]
    /\ UNCHANGED << simulation, playbackState, emitter, emitterConfig, uiState, obstacles,
                    obstacleCounter, selectedPlaneId >>

\* setEmitterDensity: nothing when the clamped densities are the current
\* ones; otherwise the grid is rebuilt, the spawn rate recomputed and the
\* simulation restarted.
setEmitterDensity(x, y) ==
  \E nextX \in { clampDensity(x) } :
  \E nextY \in { clampDensity(y) } :
      /\ edits < MaxEdits
      /\ ticks + edits < MaxSteps
      /\ edits' = edits + 1
      /\ IF nextX = emitterConfig.densityX /\ nextY = emitterConfig.densityY
         THEN /\ frame' = [ op |-> "density", dt |-> 0, marks |-> NoMarks ]
              /\ UNCHANGED << simulation, playbackState, emitterConfig >>
         ELSE \E next \in { updateSpawnRateFromDensity([ emitterConfig EXCEPT
                                                           !.densityX = nextX,
                                                           !.densityY = nextY ]) } :
              \E r \in { restart(particles, emitter, next, flowConfig, uiState, obstacles) } :
              /\ emitterConfig' = next
              /\ playbackState' = restartPlayback(playbackState)
              /\ simTime' = 0
              /\ spawnAccumulator' = 0
              /\ spawnParticleCursor' = 0
              /\ emitterSpawn' = r.env.spawn
              /\ obstacleRuntimes' = r.env.runtimes
              /\ particles' = r.done.particles
              /\ spawnVertexCursor' = r.done.spawnVertexCursor
              /\ spawnLog' = r.done.spawnLog
              /\ frame' = [ op |-> "restart", dt |-> 0, marks |-> r.done.marks ]
      /\ UNCHANGED << emitter, flowConfig, uiState, obstacles, obstacleCounter,
                      selectedPlaneId, ticks, probe >>

SetDensityX == \E value \in { 0, 2 } : setEmitterDensity(value, emitterConfig.densityY)

SetDensityY == \E value \in { 2 } : setEmitterDensity(emitterConfig.densityX, value)

\* A plausible slip: registerObstacleEntity pushes no runtime entry.
AddObstacleWithoutRuntime ==
  \E kind \in ShapeKinds :
    LET counter == obstacleCounter + 1
        id      == ObstacleIds[counter]
        entity  == [ id |-> id, kind |-> kind,
                     position |-> << ((counter % 5) - 2) * 1100000,
                                     U + ((counter % 3) - 1) * 350000,
                                     counter * 500000 - 500000 >>,
                     rotation |-> RotIdentity,
                     scale |-> InitialScale(kind) ]
    IN  /\ Edited("add")
        /\ obstacleCounter' = counter
        /\ obstacles' = Append(obstacles, entity)
        /\ obstacleRuntimes' = obstacleRuntimes
        /\ selectedPlaneId' = id
        /\ UNCHANGED << particles, simTime, spawnAccumulator, spawnParticleCursor,
                        spawnVertexCursor, emitterSpawn, spawnLog, playbackState, emitter,
                        emitterConfig, flowConfig, uiState >>

\* addObstaclePlane, ...Box, ...Sphere, ...Pyramid, ...Torus with
\* registerObstacleEntity: the counter advances, the entity is placed by the
\* counter, a runtime with a blank snapshot is pushed, the entity selected.
AddObstacle ==
  \E kind \in ShapeKinds :
    LET counter == obstacleCounter + 1
        id      == ObstacleIds[counter]
        entity  == [ id |-> id, kind |-> kind,
                     position |-> << ((counter % 5) - 2) * 1100000,
                                     U + ((counter % 3) - 1) * 350000,
                                     counter * 500000 - 500000 >>,
                     rotation |-> RotIdentity,
                     scale |-> InitialScale(kind) ]
    IN  /\ Edited("add")
        /\ obstacleCounter' = counter
        /\ obstacles' = Append(obstacles, entity)
        /\ obstacleRuntimes' = Append(obstacleRuntimes,
                                      [ id |-> id, data |-> createObstacleFieldData ])
        /\ selectedPlaneId' = id
        /\ UNCHANGED << particles, simTime, spawnAccumulator, spawnParticleCursor,
                        spawnVertexCursor, emitterSpawn, spawnLog, playbackState, emitter,
                        emitterConfig, flowConfig, uiState >>

\* A plausible slip: the first entry is removed, whatever its id.
WithoutFirst(seq, id) == Tail(seq)

\* A sequence without the entries of the given id.
WithoutId(seq, id) == SelectSeq(seq, LAMBDA e : e.id # id)

\* A plausible slip: removeObstacle leaves the selection on the removed id.
HandleKeyDownKeepingSelection ==
  \E key \in { "Escape", "Delete" } :
    /\ Edited(key)
    /\ IF key = "Escape"
       THEN /\ selectedPlaneId' = NoSelection
            /\ UNCHANGED << obstacles, obstacleRuntimes >>
       ELSE IF \E k \in DOMAIN obstacles : obstacles[k].id = selectedPlaneId
       THEN /\ obstacles' = WithoutId(obstacles, selectedPlaneId)
            /\ obstacleRuntimes' = WithoutId(obstacleRuntimes, selectedPlaneId)
            /\ selectedPlaneId' = selectedPlaneId
       ELSE UNCHANGED << obstacles, obstacleRuntimes, selectedPlaneId >>
    /\ UNCHANGED << particles, simTime, spawnAccumulator, spawnParticleCursor,
                    spawnVertexCursor, emitterSpawn, spawnLog, playbackState, emitter,
                    emitterConfig, flowConfig, uiState, obstacleCounter >>

\* handleKeyDown: Escape clears the selection; Delete removes the selected
\* obstacle (removeObstacle) and selects the emitter.
HandleKeyDown ==
  \E key \in { "Escape", "Delete" } :
    /\ Edited(key)
    /\ IF key = "Escape"
       THEN /\ selectedPlaneId' = NoSelection
            /\ UNCHANGED << obstacles, obstacleRuntimes >>
       ELSE IF \E k \in DOMAIN obstacles : obstacles[k].id = selectedPlaneId
       THEN /\ obstacles' = WithoutId(obstacles, selectedPlaneId)
            /\ obstacleRuntimes' = WithoutId(obstacleRuntimes, selectedPlaneId)
            /\ selectedPlaneId' = emitterId
       ELSE UNCHANGED << obstacles, obstacleRuntimes, selectedPlaneId >>
    /\ UNCHANGED << particles, simTime, spawnAccumulator, spawnParticleCursor,
                    spawnVertexCursor, emitterSpawn, spawnLog, playbackState, emitter,
                    emitterConfig, flowConfig, uiState, obstacleCounter >>

\* handlePointerDown with the left button and no gizmo in use: the entity
\* under the pointer is selected, or nothing.
HandlePointerDown ==
  \E hit \in { emitterId, NoSelection } \cup { obstacles[k].id : k \in DOMAIN obstacles } :
    /\ Edited("pointer")
    /\ selectedPlaneId' = hit
    /\ UNCHANGED << simulation, playbackState, emitter, emitterConfig, flowConfig, uiState,
                    obstacles, obstacleCounter >>

\* The entity e after a drag of the translate gizmo, of the rotate gizmo,
\* and of the scale gizmo followed by handleScaleProxyObjectChange.
Translated(e, by) == [ e EXCEPT !.position = VAdd(e.position, by) ]

Rotated(e, rotation) == [ e EXCEPT !.rotation = rotation ]

handleScaleProxyObjectChange(e, raw, isEmitter) ==
  [ e EXCEPT !.scale = << Max2(SCALE_EPSILON, Abs(raw[1])),
                          Max2(SCALE_EPSILON, Abs(raw[2])),
                          IF isEmitter THEN U ELSE Max2(SCALE_EPSILON, Abs(raw[3])) >> ]

\* The drags explored: a vector for the translate and scale gizmos, a
\* rotation for the rotate gizmo.
GizmoDrags ==
  { [ mode |-> "translate", by |-> <<100000, -400000, 300000>>, to |-> RotIdentity ],
    [ mode |-> "rotate", by |-> Zero3, to |-> RotTiltY ],
    [ mode |-> "scale", by |-> <<-1500000, 500000, 2 * U>>, to |-> RotIdentity ] }

Dragged(e, drag, isEmitter) ==
  CASE drag.mode = "translate" -> Translated(e, drag.by)
    [] drag.mode = "rotate"    -> Rotated(e, drag.to)
    [] drag.mode = "scale"     -> handleScaleProxyObjectChange(e, drag.by, isEmitter)

\* A drag of one of the three gizmos, which are attached to the selected
\* entity (updateTransformControlAttachments).
DragGizmo ==
  \E drag \in GizmoDrags :
    /\ selectedPlaneId # NoSelection
    /\ Edited("drag")
    /\ IF selectedPlaneId = emitterId
       THEN /\ emitter' = Dragged(emitter, drag, TRUE)
            /\ UNCHANGED obstacles
       ELSE /\ obstacles' = [ k \in DOMAIN obstacles |->
                                IF obstacles[k].id = selectedPlaneId
                                THEN Dragged(obstacles[k], drag, FALSE)
                                ELSE obstacles[k] ]
            /\ UNCHANGED emitter
    /\ UNCHANGED << simulation, playbackState, emitterConfig, flowConfig, uiState,
                    obstacleCounter, selectedPlaneId >>

\* The state the constructor leaves: the emitter entity, no obstacle, the
\* emitter selected, the spawn rate set from the density, restart() run.
Init ==
  /\ SceneState([ BaseScene EXCEPT !.densityX = InitialDensity, !.densityY = InitialDensity ])
  /\ probe = NoProbe

Next ==
  \/ Tick \/ Restart \/ Play \/ Pause
  \/ SetFlowSpeed \/ SetFlowLength \/ SetTurbulence \/ SetRecoveryLength \/ SetImpactBuffer
  \/ SetDensityX \/ SetDensityY
  \/ AddObstacle \/ HandleKeyDown \/ HandlePointerDown \/ DragGizmo

Spec == Init /\ [][Next]_vars

(***************************************************************************)
(* The keyboard and the pointer in a scene that holds two obstacles.       *)
(***************************************************************************)
TwoObstacleScenes == { sc \in Scenes : Len(sc.obstacles) = 2 }

InitKeys == /\ \E sc \in TwoObstacleScenes :
                 \E selected \in { emitterId, sc.obstacles[2].id } :
                   SceneStateSelecting(sc, selected)
            /\ probe = NoProbe

NextKeys == Tick \/ Restart \/ AddObstacle \/ HandleKeyDown \/ HandlePointerDown

SpecKeys == InitKeys /\ [][NextKeys]_vars

(***************************************************************************)
(* applyObstacleInteraction on its own: the arguments are drawn from       *)
(* bounded sets, and each step calls it on the position and velocity the   *)
(* previous call left.                                                     *)
(***************************************************************************)
\* Calls made on one particle.
MaxCalls == 2

ProbePoses ==
  { [ position |-> Zero3, rotation |-> RotIdentity ],
    [ position |-> <<300000, -200000, 100000>>, rotation |-> RotTiltY ] }

ProbeObstacles ==
  { updateObstacleFieldDataFromObject(Obstacle(1, kind, pose.position, pose.rotation),
                                      influence, WakeStrength) :
      kind \in ShapeKinds, pose \in ProbePoses, influence \in { 100000, 500000 } }

ProbePositions ==
  { <<x, y, z>> : x \in { 0, 100000, 450000, 620000 },
                  y \in { 0, 200000, 330000 },
                  z \in { -400000, 20000, 400000, 780000, 950000 } }

ProbeVelocities == { <<0, 0, 0>>, <<0, 0, 2700000>>, <<300000, -200000, -1500000>> }

ProbeTurbulence == { -500000, 0, U }

InitInteraction ==
  /\ SceneState(BaseScene)
  /\ \E obstacle \in ProbeObstacles, position \in ProbePositions,
        velocity \in ProbeVelocities, turbulenceStrength \in ProbeTurbulence :
       probe = [ calls |-> 0, obstacle |-> obstacle, flowDirection |-> <<0, 0, U>>,
                 time |-> 0, turbulenceStrength |-> turbulenceStrength,
                 position |-> position, velocity |-> velocity ]

Interact ==
  /\ probe.calls < MaxCalls
  /\ \E out \in { applyObstacleInteraction(probe.position, probe.velocity, probe.obstacle,
                                            probe.flowDirection, probe.time, TurbulenceScale,
                                            probe.turbulenceStrength) } :
       probe' = [ calls |-> probe.calls + 1, obstacle |-> probe.obstacle,
                  flowDirection |-> probe.flowDirection, time |-> probe.time,
                  turbulenceStrength |-> probe.turbulenceStrength,
                  position |-> out.position, velocity |-> out.velocity,
                  before |-> [ position |-> probe.position, velocity |-> probe.velocity ],
                  out |-> out ]
  /\ UNCHANGED << simulation, scene, playbackState, frame, ticks, edits >>

NextInteraction == Interact

SpecInteraction == InitInteraction /\ [][NextInteraction]_vars

\* The signed distance computeLocalSurfaceDistanceAndNormal returns for a
\* world position: negative inside the obstacle.
SurfaceDistance(position, obstacle) ==
  computeLocalSurfaceDistanceAndNormal(
    obstacle.shapeKind, ApplyInverseWorldMatrix(obstacle.world, position), obstacle).distance

BarrierThickness(obstacle) == Min2(50000, Mul(Max2(10000, obstacle.influenceRadius), 350000))

(***************************************************************************)
(* The impact weight of one particle over an unbounded run of animation    *)
(* frames: each step is the weight's part of one update of the particle,   *)
(* with the contact flag and the deviation the frame produced for it drawn *)
(* from bounded sets.  requestAnimationFrame schedules the next frame from *)
(* every frame, so the step is taken again and again.                      *)
(***************************************************************************)
\* Calm frames counted.
MaxCalm == 3

\* The lengths simulate is called with at flow speed 40.
TickLengths ==
  { Mul(Mul(Min2(50000, Max2(U \div 240, rawDelta)), 40 * U), TimeScale) : rawDelta \in FrameDeltas }

\* Deviations of a frame: on the lane, just below the snap threshold, on it.
Deviations == { 0, 9000, 10000 }

RecoveryLengths == { 100000, U }

\* The deviation of a frame is below the snap threshold 0.01.
SmallDeviation(normalizedOffPath) == normalizedOffPath < 10000

InitWeight ==
  /\ SceneState(BaseScene)
  /\ \E recoveryLength \in RecoveryLengths :
       probe = [ calls |-> 0, weight |-> 0, near |-> FALSE, offPath |-> 0,
                 recoveryLength |-> recoveryLength, snapped |-> FALSE, calm |-> 0 ]

\* impactedThisFrame sets the weight to 1; the end of the update relaxes it.
UpdateWeight ==
  \E near \in BOOLEAN, normalizedOffPath \in Deviations, dt \in TickLengths :
  \E impacted \in { IF near THEN U ELSE probe.weight } :
  \E relaxed \in { RelaxImpactTurbulence(impacted, normalizedOffPath, near, dt,
                                         probe.recoveryLength) } :
      /\ probe' = [ probe EXCEPT
                      !.weight  = relaxed,
                      !.near    = near,
                      !.offPath = normalizedOffPath,
                      !.snapped = impacted > 0 /\ relaxed = 0,
                      !.calm    = IF near \/ ~SmallDeviation(normalizedOffPath) THEN 0
                                  ELSE Min2(MaxCalm, probe.calm + 1) ]
      /\ UNCHANGED << simulation, scene, playbackState, frame, ticks, edits >>

NextWeight == UpdateWeight

SpecWeight == InitWeight /\ [][NextWeight]_vars /\ WF_vars(UpdateWeight)

(***************************************************************************)
(* The flow field on its own: up to MaxCalls calls of computeWakeDecay,    *)
(* all with one radius, and of sampleCurlNoise.  The 1e-6 grid of the      *)
(* model cannot place a position close enough to a zero of the curl for a  *)
(* raw curl of 1e-5 or less (in double precision position                  *)
(* (-2.4243477482580276, 3.0060949624472024, 1.4230972772001318) at time 1 *)
(* and scale 0.35 gives 3.4e-13), so sampleCurlNoise takes its raw curl    *)
(* from the curls at a few positions and from a few short vectors.         *)
(***************************************************************************)
InitField ==
  /\ SceneState(BaseScene)
  /\ \E radius \in { 500000, U, 1600000 } :
       probe = [ calls |-> 0, radius |-> radius, samples |-> << >>, curls |-> << >> ]

SampleWake ==
  /\ probe.calls < MaxCalls
  /\ \E downstream \in { -100000, 0, 1, 500000, 4 * U, 30 * U },
        lateral \in { -2200000, -100000, 0, 100000, 2200000 } :
       probe' = [ probe EXCEPT
                    !.calls = @ + 1,
                    !.samples = Append(@, [ downstream |-> downstream, lateral |-> lateral,
                                            decay |-> computeWakeDecay(downstream, lateral,
                                                                       probe.radius) ]) ]
  /\ UNCHANGED << simulation, scene, playbackState, frame, ticks, edits >>

SampleCurl ==
  /\ probe.calls < MaxCalls
  /\ \E raw \in { RawCurl(position, time, TurbulenceScale) :
                     position \in ObstaclePlaces, time \in { 0, U } }
                 \cup { Zero3, <<3, -2, 2>>, <<10, 0, 0>>, <<0, 0, -11>>, <<0, 20, 0>> } :
       probe' = [ probe EXCEPT
                    !.calls = @ + 1,
                    !.curls = Append(@, [ raw |-> raw, curl |-> NormalizeCurl(raw) ]) ]
  /\ UNCHANGED << simulation, scene, playbackState, frame, ticks, edits >>

NextField == SampleWake \/ SampleCurl

SpecField == InitField /\ [][NextField]_vars

(***************************************************************************)
(* Properties.                                                             *)
(***************************************************************************)
\* The slack a comparison against a velocity component gets: the 1e-4 of
\* the statements plus what the 1e-6 grid adds when a short vector is
\* normalised.
NormalTolerance == 1000

\* C1: for every shape kind, a particle whose signed distance to the
\* obstacle surface is below the barrier thickness before a call of
\* applyObstacleInteraction is on or outside the surface after it.
C1_NonPenetration ==
  ( /\ probe.calls > 0
    /\ SurfaceDistance(probe.before.position, probe.obstacle) < BarrierThickness(probe.obstacle) )
  => SurfaceDistance(probe.position, probe.obstacle) >= 0

\* The velocity component along the surface normal of the last call.
NormalSpeed == Abs(VDot(probe.velocity, probe.out.surfaceNormal))

\* The last call added no wake turbulence: the strength was at most 1e-5,
\* or the particle was outside the wake.
NoWakeInjection == probe.turbulenceStrength <= 10 \/ ~probe.out.inWake

Slots == 1..MaxParticles

\* C3: after every tick and after a restart every particle has a positive
\* lifetime and an age strictly below it; a particle whose age reached its
\* lifetime in the tick was respawned in it.
C3_AgeBelowLifetime ==
  \A i \in Slots :
    /\ particles[i].lifetime > 0
    /\ particles[i].age >= 0
    /\ particles[i].age < particles[i].lifetime
    /\ frame.marks[i].expired
         => /\ frame.marks[i].was[1].age >= frame.marks[i].was[1].lifetime
            /\ particles[i] = frame.marks[i].born[1]

\* C3 happens: a tick in which a particle's age reached its lifetime.
C3_Witness ==
  /\ frame.op = "simulate"
  /\ \E i \in Slots : /\ frame.marks[i].expired
                      /\ frame.marks[i].was[1].age >= frame.marks[i].was[1].lifetime
                      /\ particles[i].age = 0

\* C4: the lane origin and the lane direction of a particle are written only
\* when the particle is respawned: no animation frame, obstacle edit,
\* emitter transform change or configuration change alters the lane of a
\* particle it does not respawn.
C4_LaneFixedBetweenRespawns ==
  [][ \A i \in Slots :
        frame'.marks[i].born = << >>
          => /\ particles'[i].laneOrigin = particles[i].laneOrigin
             /\ particles'[i].laneDirection = particles[i].laneDirection ]_vars

\* C4 happens: after an edit that turned, moved or scaled the emitter, an
\* animation frame updated a particle without respawning it, and the
\* particle's lane is not one the emitter would give now.
C4_Witness ==
  /\ frame.op = "simulate"
  /\ edits > 0
  /\ \E i \in Slots :
       /\ frame.marks[i].updated
       /\ frame.marks[i].born = << >>
       /\ \/ particles[i].laneDirection # emitterSpawn.emitterNormal
          \/ \A k \in DOMAIN emitterSpawn.emitterWorldVertices :
               emitterSpawn.emitterWorldVertices[k] # particles[i].laneOrigin

\* C5: the k-th respawn since the last restart, counted from 0 over the
\* restart, the spawn loop and the expiries alike, is placed at emitter
\* vertex k mod vertexCount.
C5_RoundRobin ==
  /\ spawnVertexCursor = Len(spawnLog)
  /\ \A k \in 1..Len(spawnLog) :
       /\ spawnLog[k].vertexIndex = (k - 1) % spawnLog[k].vertexCount
       /\ spawnLog[k].vertexCount = Len(emitterSpawn.emitterWorldVertices)
       /\ spawnLog[k].vertex = emitterSpawn.emitterWorldVertices[spawnLog[k].vertexIndex + 1]

\* C5 happens: the respawns have gone round the emitter's vertices, and the
\* spawn loop and an expiry are among them.
C5_Witness ==
  /\ Len(spawnLog) > Len(emitterSpawn.emitterWorldVertices)
  /\ \E k \in 1..Len(spawnLog) : spawnLog[k].by = "rate"
  /\ \E k \in 1..Len(spawnLog) : spawnLog[k].by = "expiry"

\* C6: every respawn leaves the slot with age 0, off-lane deviation 0,
\* impact weight 0 and the lane origin at the spawn position, whatever the
\* slot held before.
C6_RespawnResets ==
  \A i \in Slots :
    frame.marks[i].born # << >>
      => LET born == frame.marks[i].born[1]
         IN  /\ born.age = 0
             /\ born.offPath = 0
             /\ born.impact = 0
             /\ born.laneOrigin = born.position
             /\ \E k \in 1..Len(spawnLog) : /\ spawnLog[k].index = i - 1
                                            /\ spawnLog[k].vertex = born.laneOrigin

\* C6 happens: a slot with positive age, deviation and impact weight, away
\* from its lane origin, was respawned.
C6_Witness ==
  \E i \in Slots :
    /\ frame.marks[i].was # << >>
    /\ frame.marks[i].was[1].age > 0
    /\ frame.marks[i].was[1].offPath > 0
    /\ frame.marks[i].was[1].impact > 0
    /\ frame.marks[i].was[1].laneOrigin # frame.marks[i].was[1].position

\* The distance of a particle along its lane, and off it.
ForwardProjection(slot) == VDot(VSub(slot.position, slot.laneOrigin), slot.laneDirection)

LateralOffset(slot) ==
  VLength(VSub(slot.position,
               VAdd(VScale(slot.laneDirection, ForwardProjection(slot)), slot.laneOrigin)))

\* C7: after every tick the off-lane deviation and the impact weight of
\* every particle lie in [0, 1], and the deviation is 0 when the particle's
\* forward projection on its lane is not positive.
C7_UnitRanges ==
  \A i \in Slots :
    /\ particles[i].offPath >= 0 /\ particles[i].offPath <= U
    /\ particles[i].impact >= 0 /\ particles[i].impact <= U
    /\ ForwardProjection(particles[i]) <= 0 => particles[i].offPath = 0

\* C7 happens: a tick left a particle behind its lane origin and off the
\* lane.
C7_Witness ==
  /\ frame.op = "simulate"
  /\ \E i \in Slots : /\ frame.marks[i].updated
                      /\ ForwardProjection(particles[i]) <= 0
                      /\ LateralOffset(particles[i]) > 10000

\* Some obstacle reported contact with particle i in the tick.
SomeHit(i) == \E k \in 1..Len(frame.marks[i].hits) : frame.marks[i].hits[k]

\* applyLaneRecovery had a correction to make for particle i: the particle
\* was ahead of its lane origin and more than 1e-4 off the lane.
OffLaneAhead(i) == frame.marks[i].laneForward > 0 /\ frame.marks[i].laneError > 100

\* C8 as stated: lane recovery steers a particle in a tick exactly when the
\* particle touched no obstacle in that tick.
C8_RecoveryIffNoContact ==
  \A i \in Slots :
    (frame.op = "simulate" /\ frame.marks[i].updated)
      => (frame.marks[i].steered <=> ~frame.marks[i].touched)

\* C8: the contact flag of a tick is the disjunction over the obstacles;
\* a particle that touched any obstacle is not steered; one that touched
\* none is steered exactly when it is ahead of its lane origin and more
\* than 1e-4 off its lane.
C8_RecoveryGatedByContact ==
  \A i \in Slots :
    (frame.op = "simulate" /\ frame.marks[i].updated)
      => /\ frame.marks[i].touched <=> SomeHit(i)
         /\ Len(frame.marks[i].hits) = Len(obstacles)
         /\ frame.marks[i].touched => ~frame.marks[i].steered
         /\ ~frame.marks[i].touched => (frame.marks[i].steered <=> OffLaneAhead(i))

\* C8 happens: of two obstacles one was touched and the other not, the
\* particle was off its lane and ahead of the origin, and was not steered.
C8_Witness ==
  /\ frame.op = "simulate"
  /\ \E i \in Slots : /\ frame.marks[i].updated
                      /\ Len(frame.marks[i].hits) = 2
                      /\ \E k \in 1..2 : frame.marks[i].hits[k]
                      /\ \E k \in 1..2 : ~frame.marks[i].hits[k]
                      /\ OffLaneAhead(i)
                      /\ ~frame.marks[i].steered

\* C9: a particle that touched an obstacle in a tick has impact weight
\* exactly 1 at the end of the tick.
C9_ContactSetsWeight ==
  \A i \in Slots :
    (frame.op = "simulate" /\ frame.marks[i].updated /\ frame.marks[i].touched)
      => particles[i].impact = U

\* C9 happens: a particle touched an obstacle in a tick.
C9_Witness ==
  /\ frame.op = "simulate"
  /\ \E i \in Slots : /\ frame.marks[i].updated
                      /\ frame.marks[i].touched
                      /\ particles[i].impact = U

\* The last frame was calm for the particle: no contact and the deviation
\* below 0.01.
Calm == ~probe.near /\ SmallDeviation(probe.offPath)

\* C10: the impact weight has no infinite tail: for a particle that no
\* longer touches an obstacle and whose deviation stays below 0.01, the
\* weight reaches exactly 0 after finitely many frames and stays 0; and a
\* weight of 0 stays 0 in every frame without contact.
C10_NoInfiniteTail ==
  /\ (<>[]Calm) => (<>[](probe.weight = 0))
  /\ [][ (probe.weight = 0 /\ ~probe'.near) => probe'.weight = 0 ]_vars

\* C10 happens: the last of a run of calm frames, off the lane by less
\* than the threshold, snapped a positive weight to 0.
C10_Witness ==
  /\ probe.calm = MaxCalm
  /\ probe.snapped
  /\ probe.offPath > 0
  /\ probe.weight = 0

\* The particle of slot i was put back on the emitter in the step.
Respawned(i) == frame'.marks[i].spawned \/ frame'.marks[i].expired \/ frame'.op = "restart"

\* C11: a particle has a positive impact weight, and receives the impact
\* curl-noise kick, only if it touched an obstacle in some tick since its
\* last respawn: the weight is 0 at the start, and a step leaves a slot
\* with a positive weight or a kick only if the slot touched an obstacle in
\* that step or carried a positive weight into it and was not respawned.
C11_WeightOnlyAfterContact ==
  /\ \A i \in Slots : particles[i].impact = 0
  /\ [][ \A i \in Slots :
          (particles'[i].impact > 0 \/ frame'.marks[i].kicked)
            => \/ frame'.marks[i].touched
               \/ particles[i].impact > 0 /\ ~Respawned(i) ]_vars

\* C11 happens: a particle that touched an obstacle in an earlier tick was
\* kicked in a tick without contact, with a weight between 0 and 1.
C11_Witness ==
  /\ frame.op = "simulate"
  /\ \E i \in Slots : /\ frame.marks[i].updated
                      /\ ~frame.marks[i].touched
                      /\ frame.marks[i].kicked
                      /\ particles[i].impact > 0
                      /\ particles[i].impact < U

\* What a tick advances: the simulation time, every particle's position,
\* velocity and age, the spawn accumulator and both cursors.
Advanced ==
  << simTime, [ i \in Slots |-> << particles[i].position, particles[i].velocity,
                                   particles[i].age >> ],
     spawnAccumulator, spawnParticleCursor, spawnVertexCursor >>

\* C12: while playback is paused an animation frame does not tick the
\* simulation: it leaves the simulation time, every particle's position,
\* velocity and age, the spawn accumulator and the cursors as they are; and
\* as long as playback stays paused no other handler changes them either
\* (play, restart and a change of the emitter density set it playing).
C12_PausedFramesFreeze ==
  [][ /\ (~playbackState.isPlaying /\ ticks' # ticks) => UNCHANGED Advanced
      /\ (~playbackState.isPlaying /\ ~playbackState'.isPlaying) => UNCHANGED Advanced ]_vars

\* C12 happens: a frame came while playback was paused after the
\* simulation had advanced.
C12_Witness ==
  /\ frame.op = "idle"
  /\ ~playbackState.isPlaying
  /\ simTime > 0
  /\ ticks >= 2

\* C13: the playback state is created playing, and from then on
\* isPlaying follows the last of play, pause and restart: play and restart
\* leave it true, pause leaves it false, a frame leaves it as it is; the
\* speed it was created with is never changed by them.
C13_PlaybackFollowsLastOperation ==
  /\ playbackState.isPlaying
  /\ [][ /\ playbackState'.speed = playbackState.speed
         /\ frame'.op \in { "play", "restart" } => playbackState'.isPlaying
         /\ frame'.op = "pause" => ~playbackState'.isPlaying
         /\ frame'.op \in { "simulate", "idle" } => UNCHANGED playbackState ]_vars

\* C13 happens: a playback created with speed 40 was paused after frames
\* of the flow.
C13_Witness ==
  /\ frame.op = "pause"
  /\ ~playbackState.isPlaying
  /\ playbackState.speed = 40 * U
  /\ simTime > 0

\* C14: after a restart every trail sample of every particle equals the
\* particle's current position.
C14_RestartCollapsesTrails ==
  frame.op = "restart" =>
    \A i \in Slots : \A t \in 1..TrailLength :
      particles[i].trail[t] = particles[i].position

\* C14 happens: a restart came when a particle's trail held two different
\* samples, and placed the particle away from the emitter vertex it was
\* respawned at.
C14_Witness ==
  /\ frame.op = "restart"
  /\ \E i \in Slots : /\ frame.marks[i].was # << >>
                      /\ frame.marks[i].was[1].trail[1] # frame.marks[i].was[1].trail[2]
                      /\ particles[i].position # particles[i].laneOrigin

\* The step is a Delete key press that removed an obstacle.
Deleted == frame'.op = "Delete" /\ Len(obstacles') < Len(obstacles)

\* C15: deleting the selected obstacle leaves nothing selected; the emitter
\* is not selected by the deletion.
C15_DeleteClearsSelection ==
  [][ Deleted => selectedPlaneId' = NoSelection ]_vars

\* The entries of a sequence, and the sequence seq without exactly its
\* entry of the given id: the other entries are kept, in their order.
Entries(seq) == { seq[k] : k \in DOMAIN seq }
RemovedExactly(before, after, id) ==
  /\ Len(after) = Len(before) - 1
  /\ Entries(after) = { e \in Entries(before) : e.id # id }
  /\ \A j, k \in DOMAIN after :
       j < k => \E m, n \in DOMAIN before : m < n /\ before[m] = after[j] /\ before[n] = after[k]

\* C16: the Delete key removes exactly the selected obstacle: with an
\* obstacle selected, that obstacle and no other leaves the entities and
\* the runtime list; with the emitter or nothing selected nothing is
\* removed; the emitter is never removed.
C16_DeleteRemovesSelectedOnly ==
  [][ frame'.op = "Delete" =>
        /\ emitter' = emitter
        /\ IF selectedPlaneId \in { e.id : e \in Entries(obstacles) }
           THEN /\ RemovedExactly(obstacles, obstacles', selectedPlaneId)
                /\ RemovedExactly(obstacleRuntimes, obstacleRuntimes', selectedPlaneId)
           ELSE UNCHANGED << obstacles, obstacleRuntimes >> ]_vars

\* C16 happens: Delete was pressed with the second of two obstacles
\* selected, and the first is still there.
C16_Witness ==
  /\ frame.op = "Delete"
  /\ Len(obstacles) = 1
  /\ obstacles[1].id = ObstacleIds[1]
  /\ Len(obstacleRuntimes) = 1
  /\ obstacleRuntimes[1].id = ObstacleIds[1]

\* States a slot can be in besides the one it is in: one step short of its
\* lifetime, and elsewhere with another velocity and a full impact weight.
Variants(slot) ==
  { [ slot EXCEPT !.age = slot.lifetime - 1 ],
    [ slot EXCEPT !.position = VAdd(slot.position, <<U, 0, 0>>),
                  !.velocity = VScale(slot.velocity, 500000),
                  !.impact = U ] }

\* What the tick of this step writes when run on the particle arrays slots.
Outcome(slots) == simulateFrom(slots, frame'.dt).done

\* The two runs of the tick of this step that the property compares: slot i
\* holds own in both, slot j holds its state in one and other in the other.
TwoRuns(i, own, j, other) ==
  [ base |-> Outcome([ particles EXCEPT ![i] = own ]),
    alt  |-> Outcome([ particles EXCEPT ![i] = own, ![j] = other ]) ]

\* C17 as stated: in a tick the state written for a particle is the same
\* whatever the states of the other particles are.
C17_NoInterParticleDependency ==
  [][ frame'.op = "simulate" =>
        \A i, j \in Slots : \A own \in Variants(particles[i]), other \in Variants(particles[j]) :
          i # j => \E r \in { TwoRuns(i, own, j, other) } :
                     r.alt.particles[i] = r.base.particles[i] ]_vars

\* C17: in a tick the state written for a particle that does not expire in
\* the tick is the same whatever the states of the other particles are; of
\* a particle that expires, the velocity, age, lifetime, lane direction,
\* deviation and weight are the same, while its position and lane origin
\* are the emitter vertex at the shared cursor.
C17_NoDependencyUnlessExpired ==
  [][ frame'.op = "simulate" =>
        \A i, j \in Slots : \A own \in Variants(particles[i]), other \in Variants(particles[j]) :
          i # j => \E r \in { TwoRuns(i, own, j, other) } :
                   \E base \in { r.base.particles[i] }, alt \in { r.alt.particles[i] } :
                     /\ r.alt.marks[i].expired = r.base.marks[i].expired
                     /\ ~r.base.marks[i].expired => alt = base
                     /\ alt.velocity = base.velocity
                     /\ alt.age = base.age
                     /\ alt.lifetime = base.lifetime
                     /\ alt.laneDirection = base.laneDirection
                     /\ alt.offPath = base.offPath
                     /\ alt.impact = base.impact ]_vars

\* C17 happens: in one tick a particle expired and a particle of a higher
\* slot was updated.
C17_Witness ==
  /\ frame.op = "simulate"
  /\ \E i, j \in Slots : /\ j < i
                         /\ frame.marks[j].expired
                         /\ frame.marks[i].updated

C19_WakeDecay ==
  \A m, n \in DOMAIN probe.samples :
    \E a \in { probe.samples[m] }, b \in { probe.samples[n] } :
      /\ a.downstream <= 0 => a.decay = 0
      /\ a.downstream > 0 => a.decay >= 0 /\ a.decay <= U
      /\ ( /\ a.downstream > 0
           /\ b.downstream >= a.downstream
           /\ Abs(b.lateral) >= Abs(a.lateral) ) => b.decay <= a.decay

\* C19 happens: two calls downstream of the obstacle, the second further
\* downstream and further off the axis, gave a smaller positive decay.
C19_Witness ==
  /\ Len(probe.samples) = 2
  /\ probe.samples[1].downstream > 0
  /\ probe.samples[2].downstream > probe.samples[1].downstream
  /\ Abs(probe.samples[2].lateral) > Abs(probe.samples[1].lateral)
  /\ probe.samples[2].decay > 0
  /\ probe.samples[2].decay < probe.samples[1].decay

\* The slack a comparison of a length against 1 gets on the 1e-6 grid.
UnitTolerance == 10

\* C20 as stated: sampleCurlNoise returns a vector of unit length when the
\* raw curl is longer than 1e-5, and the zero vector when it is not.
C20_UnitOrZero ==
  \A n \in DOMAIN probe.curls :
    \E c \in { probe.curls[n] } :
      IF VLength(c.raw) > 10
      THEN Abs(VLength(c.curl) - U) <= UnitTolerance
      ELSE c.curl = Zero3

\* C20: sampleCurlNoise returns a vector of unit length when the raw curl
\* is longer than 1e-5, and the raw curl as it is, a vector no longer than
\* 1e-5, when it is not.
C20_UnitOrRaw ==
  \A n \in DOMAIN probe.curls :
    \E c \in { probe.curls[n] } :
      IF VLength(c.raw) > 10
      THEN Abs(VLength(c.curl) - U) <= UnitTolerance
      ELSE c.curl = c.raw /\ VLength(c.curl) <= 10

\* C20 happens: one call normalised a raw curl longer than 1 and another
\* returned a raw curl of 1e-5 or less, not zero, as it was.
C20_Witness ==
  /\ Len(probe.curls) = 2
  /\ VLength(probe.curls[1].raw) > U
  /\ probe.curls[1].curl # probe.curls[1].raw
  /\ probe.curls[2].raw # Zero3
  /\ VLength(probe.curls[2].raw) <= 10
  /\ probe.curls[2].curl = probe.curls[2].raw

\* The slack a comparison of two forward speeds gets on the 1e-6 grid.
ForwardTolerance == 100

\* applyObstacleInteraction for the particle of slot i and the k-th
\* obstacle as the tick calls it, but with turbulence strength 1.
WakeCall(i, k) ==
  applyObstacleInteraction(particles[i].position, particles[i].velocity,
                           obstacleRuntimes[k].data, emitterSpawn.emitterNormal, simTime,
                           TurbulenceScale, U)

\* C21: neither turbulence injection changes the forward speed: the
\* impact kick of a tick leaves the velocity component along the emitter
\* normal as it was, and so does the wake kick of applyObstacleInteraction
\* called with a positive turbulence strength.
C21_TurbulenceIsLateral ==
  \A i \in Slots :
    /\ Abs(frame.marks[i].kickForward) <= ForwardTolerance
    /\ \A k \in DOMAIN obstacleRuntimes :
         \E out \in { WakeCall(i, k) } :
           out.inWake =>
             Abs(VDot(out.velocity, emitterSpawn.emitterNormal)
                   - VDot(out.beforeWake, emitterSpawn.emitterNormal)) <= ForwardTolerance

\* C21 happens: a tick kicked a particle with the impact turbulence, and
\* the particle is in the wake of an obstacle where a call with turbulence
\* strength 1 changes its velocity.
C21_Witness ==
  /\ frame.op = "simulate"
  /\ \E i \in Slots :
       /\ frame.marks[i].kicked
       /\ \E k \in DOMAIN obstacleRuntimes :
            \E out \in { WakeCall(i, k) } : out.inWake /\ out.velocity # out.beforeWake


\* C22: with a turbulence strength of zero or below, applyObstacleInteraction
\* adds no wake force: the velocity it returns in a wake is the velocity
\* before the wake injection, and a particle at rest in the wake, outside
\* the influence shell, is still at rest after the call.
C22_NoWakeForceWithoutTurbulence ==
  (probe.calls > 0 /\ probe.turbulenceStrength <= 0 /\ probe.out.inWake) =>
    /\ probe.out.velocity = probe.out.beforeWake
    /\ (probe.before.velocity = <<0, 0, 0>> /\ ~probe.out.nearSurface) =>
         probe.velocity = <<0, 0, 0>>

C22_Witness ==
  /\ probe.calls > 0
  /\ probe.turbulenceStrength < 0
  /\ probe.out.inWake
  /\ ~probe.out.nearSurface
  /\ probe.before.velocity = <<0, 0, 0>>
  /\ probe.velocity = <<0, 0, 0>>


SpeedTolerance == 1000

\* C23: when the downstream recovery blend is applied, the blend factor is
\* at most 0.2 and the speed after the blend equals the speed before it.
C23_RecoveryKeepsSpeed ==
  (probe.calls > 0 /\ probe.out.recovering) =>
    /\ probe.out.recoveryBlend <= 200000
    /\ Abs(VLength(probe.out.beforeWake) - VLength(probe.before.velocity)) <= SpeedTolerance


\* The length of the part of a velocity orthogonal to the emitter normal.
LateralSpeed(velocity) ==
  VLength(VAddScaled(velocity, emitterSpawn.emitterNormal,
                     -VDot(velocity, emitterSpawn.emitterNormal)))


(***************************************************************************)
(* One particle followed over many ticks: each step is simulate's update   *)
(* of that particle (lines 1548-1626) for a slot the spawn cursor does not *)
(* reach and whose lifetime has not run out, as for any one of the         *)
(* thousands of particles of the application between two respawns.         *)
(***************************************************************************)
MaxTrack == 16

InitTrack ==
  /\ \E sc \in { sc \in Scenes : Len(sc.obstacles) = 1 } : SceneState(sc)
  /\ \E i \in Slots, rawDelta \in FrameDeltas :
       probe = [ calls |-> 0, time |-> simTime, slot |-> particles[i], before |-> particles[i],
                 dt |-> Mul(Mul(Min2(50000, Max2(U \div 240, rawDelta)),
                                Max2(50000, playbackState.speed)), TimeScale),
                 touched |-> FALSE, steered |-> FALSE, kicked |-> FALSE, laneError |-> 0,
                 deflected |-> FALSE ]

Track ==
  \E aged \in { [ probe.slot EXCEPT !.age = @ + probe.dt ] } :
      /\ probe.calls < MaxTrack
      /\ aged.age < aged.lifetime
      /\ \E u \in { UpdateParticle(aged, probe.dt, ExpNeg(Mul(Drag, probe.dt)),
                                   [ simTime            |-> probe.time + probe.dt,
                                     spawn              |-> emitterSpawn,
                                     runtimes           |-> obstacleRuntimes,
                                     flowLength         |-> uiState.flowLength,
                                     turbulenceStrength |-> flowConfig.turbulenceStrength,
                                     recoveryLength     |-> flowConfig.recoveryLength,
                                     by                 |-> "none" ]) } :
           probe' = [ probe EXCEPT !.calls = @ + 1,
                                   !.time = @ + probe.dt,
                                   !.slot = u.slot,
                                   !.before = probe.slot,
                                   !.touched = u.touched,
                                   !.steered = u.steered,
                                   !.kicked = u.kicked,
                                   !.laneError = u.laneError,
                                   !.deflected = @ \/ u.touched ]
      /\ UNCHANGED << simulation, scene, playbackState, frame, ticks, edits >>

SpecTrack == InitTrack /\ [][Track]_vars

\* An interaction step of the followed particle with one obstacle, with
\* turbulence strength 0.
RecoveryCall(k) ==
  applyObstacleInteraction(probe.slot.position, probe.slot.velocity, obstacleRuntimes[k].data,
                           emitterSpawn.emitterNormal, probe.time, TurbulenceScale, 0)

\* C24 (as written): once a particle has been deflected by an obstacle and
\* is no longer touching it, with turbulence 0 and a nonzero recovery
\* length, its velocity component orthogonal to the flow direction strictly
\* decreases on every step while it is nonzero.
C24_LateralSpeedDecreases ==
  (/\ probe.calls > 0
   /\ probe.deflected
   /\ ~probe.touched
   /\ flowConfig.turbulenceStrength = 0
   /\ flowConfig.recoveryLength > 0
   /\ LateralSpeed(probe.before.velocity) > 0)
    => LateralSpeed(probe.slot.velocity) < LateralSpeed(probe.before.velocity)

\* C24 (amended): with turbulence 0, an interaction step in the downstream
\* recovery region never increases the velocity component orthogonal to the
\* flow and strictly decreases it while the blend resolves it; over a whole
\* tick without contact that component grows by at most the lane recovery
\* impulse, 0.35 of the lateral lane error.
C24_RecoveryShrinksLateralSpeed ==
  (probe.calls > 0 /\ flowConfig.turbulenceStrength = 0) =>
    /\ ~probe.touched =>
         LateralSpeed(probe.slot.velocity)
           <= LateralSpeed(probe.before.velocity) + Mul(350000, probe.laneError) + SpeedTolerance
    /\ \A k \in DOMAIN obstacleRuntimes :
         \E out \in { RecoveryCall(k) } :
           out.recovering =>
             /\ LateralSpeed(out.velocity) <= LateralSpeed(probe.slot.velocity)
             /\ Mul(LateralSpeed(probe.slot.velocity), out.recoveryBlend) >= 2
                  => LateralSpeed(out.velocity) < LateralSpeed(probe.slot.velocity)

C24_Witness ==
  /\ probe.calls > 1
  /\ probe.deflected
  /\ ~probe.touched
  /\ probe.steered
  /\ flowConfig.turbulenceStrength = 0
  /\ LateralSpeed(probe.slot.velocity) > LateralSpeed(probe.before.velocity)
  /\ \E k \in DOMAIN obstacleRuntimes :
       \E out \in { RecoveryCall(k) } :
         out.recovering /\ LateralSpeed(out.velocity) < LateralSpeed(probe.slot.velocity)


\* The six steps of one particle's update, composed in the order given:
\* relaxation, interaction with every obstacle, impact turbulence, lane
\* recovery, drag and integration, deviation.  The weight is relaxed either
\* with the injection, from the deviation the tick started with, or at the
\* end, from the deviation just recomputed.
StepsInOrder(slot, dt, env, decayAtInjection) ==
  Let([ relaxed \in { VAddScaled(slot.velocity,
                                 VSub(VScale(env.spawn.emitterNormal, InitialSpeed), slot.velocity),
                                 Min2(U, Mul(dt, 1400000))) } |->
  Let([ hit \in { ObstacleLoop([ position |-> slot.position, velocity |-> relaxed,
                                 near |-> FALSE, hits |-> << >> ],
                               env.runtimes, 1, env) } |->
  Let([ impacted \in { IF hit.near THEN U ELSE slot.impact } |->
  Let([ kicked \in { ImpactTurbulence(hit.position, hit.velocity, impacted, dt, env) },
        early  \in { RelaxImpactTurbulence(impacted, slot.offPath, hit.near, dt,
                                           env.recoveryLength) } |->
  Let([ lane \in { applyLaneRecovery(slot, hit.position, kicked, dt, hit.near,
                                     env.recoveryLength) } |->
  Let([ velocity \in { VScale(lane.velocity, ExpNeg(Mul(Drag, dt))) } |->
  Let([ position \in { VAddScaled(hit.position, velocity, dt) } |->
  Let([ offPath \in { computeNormalizedOffPath(slot.laneOrigin, slot.laneDirection, position) } |->
    [ position |-> position, velocity |-> velocity, offPath |-> offPath,
      impact |-> IF decayAtInjection THEN early
                 ELSE RelaxImpactTurbulence(impacted, offPath, hit.near, dt, env.recoveryLength) ]
  ]) ]) ]) ]) ]) ]) ]) ])

\* The followed particle's last update, composed step by step.
LastUpdateInOrder(decayAtInjection) ==
  StepsInOrder([ probe.before EXCEPT !.age = @ + probe.dt ], probe.dt,
               [ simTime            |-> probe.time,
                 spawn              |-> emitterSpawn,
                 runtimes           |-> obstacleRuntimes,
                 flowLength         |-> uiState.flowLength,
                 turbulenceStrength |-> flowConfig.turbulenceStrength,
                 recoveryLength     |-> flowConfig.recoveryLength,
                 by                 |-> "none" ],
               decayAtInjection)

\* C25 (as written): every live particle is processed in the order
\* relaxation, obstacle interaction, impact turbulence together with the
\* decay of the weight, lane recovery, drag then integration, deviation.
C25_DecayWithInjection ==
  probe.calls > 0 =>
    \E r \in { LastUpdateInOrder(TRUE) } :
      /\ probe.slot.position = r.position
      /\ probe.slot.velocity = r.velocity
      /\ probe.slot.offPath = r.offPath
      /\ probe.slot.impact = r.impact

\* C25 (amended): the order is relaxation, obstacle interaction, impact
\* turbulence, lane recovery, drag then integration, deviation, and last
\* the decay of the weight toward the deviation just recomputed.
C25_DecayAfterDeviation ==
  probe.calls > 0 =>
    \E r \in { LastUpdateInOrder(FALSE) } :
      /\ probe.slot.position = r.position
      /\ probe.slot.velocity = r.velocity
      /\ probe.slot.offPath = r.offPath
      /\ probe.slot.impact = r.impact

C25_Witness ==
  /\ probe.calls > 0
  /\ probe.deflected
  /\ probe.steered
  /\ ~probe.touched
  /\ probe.slot.impact > 0
  /\ probe.slot.impact < probe.before.impact
  /\ probe.slot.offPath # probe.before.offPath


\* C26: a particle respawned by the lifetime check is not integrated in
\* that tick: after the tick it is exactly the particle the respawn made,
\* at its assigned emitter vertex with age 0, its velocity that of the
\* respawn and every trail sample at the vertex.
C26_ExpiredNotIntegrated ==
  frame.op = "simulate" =>
    \A i \in Slots :
      frame.marks[i].expired =>
        /\ ~frame.marks[i].updated
        /\ particles[i] = frame.marks[i].born[1]
        /\ particles[i].age = 0
        /\ \E n \in DOMAIN spawnLog :
             /\ spawnLog[n].index = i - 1
             /\ spawnLog[n].by = "expiry"
             /\ particles[i].position = spawnLog[n].vertex
             /\ particles[i].position
                  = emitterSpawn.emitterWorldVertices[spawnLog[n].vertexIndex + 1]
        /\ \A t \in DOMAIN particles[i].trail : particles[i].trail[t] = particles[i].position
        /\ ~frame.marks[i].touched /\ ~frame.marks[i].steered /\ ~frame.marks[i].kicked

C26_Witness ==
  /\ frame.op = "simulate"
  /\ \E i \in Slots :
       /\ frame.marks[i].expired
       /\ frame.marks[i].was[1].age >= frame.marks[i].was[1].lifetime
       /\ frame.marks[i].was[1].position # particles[i].position
       /\ particles[i].age = 0
       /\ \E j \in Slots : frame.marks[j].updated


\* C27 (as written): the delta-time by which a tick advances the simulation
\* always lies in [1/240 s, 0.05 s].
C27_TickWithinFrameClamp ==
  frame.op = "simulate" => (U \div 240 <= frame.dt /\ frame.dt <= 50000)

\* C27 (amended): a tick advances the simulation time and the age of every
\* particle it updates by one value, the frame interval clamped to
\* [1/240 s, 0.05 s] and multiplied by max(0.05, playback speed) and by the
\* time scale.
C27_TickWithinScaledClamp ==
  [][ frame'.op = "simulate" =>
        \E factor \in { Mul(Max2(50000, playbackState.speed), TimeScale) } :
          /\ Mul(U \div 240, factor) <= frame'.dt
          /\ frame'.dt <= Mul(50000, factor)
          /\ simTime' = simTime + frame'.dt
          /\ \A i \in Slots :
               (frame'.marks[i].updated /\ ~frame'.marks[i].spawned)
                 => particles'[i].age = particles[i].age + frame'.dt ]_vars

C27_Witness ==
  /\ frame.op = "simulate"
  /\ playbackState.speed = 40 * U
  /\ frame.dt = 40 * 50000
  /\ simTime >= frame.dt
  /\ \E i \in Slots : frame.marks[i].updated


\* The ids of the entries of a sequence.
IdsOf(seq) == { seq[k].id : k \in DOMAIN seq }

\* The obstacle runtime list holds one entry per existing obstacle entity.
RuntimesMatchEntities ==
  /\ Len(obstacleRuntimes) = Len(obstacles)
  /\ IdsOf(obstacleRuntimes) = IdsOf(obstacles)
  /\ Cardinality(IdsOf(obstacleRuntimes)) = Len(obstacleRuntimes)
  /\ \A k \in DOMAIN obstacles :
       \E n \in 1..obstacleCounter : obstacles[k].id = ObstacleIds[n]

\* C28: after any sequence of add, delete, restart and tick, the obstacle
\* runtime list holds exactly one entry for each existing obstacle entity,
\* with no entry of a deleted obstacle, no duplicate and none missing; the
\* counter behind the ids never decreases and an added obstacle takes the
\* next id, so that no id is used again after a deletion.
C28_RuntimesMatchEntities ==
  /\ RuntimesMatchEntities
  /\ [][ /\ RuntimesMatchEntities'
         /\ obstacleCounter' >= obstacleCounter
         /\ \A id \in IdsOf(obstacles') \ IdsOf(obstacles) :
              /\ obstacleCounter' = obstacleCounter + 1
              /\ id = ObstacleIds[obstacleCounter'] ]_vars

C28_Witness ==
  /\ frame.op = "add"
  /\ obstacleCounter = 3
  /\ Len(obstacles) = 2
  /\ Len(obstacleRuntimes) = 2
  /\ IdsOf(obstacleRuntimes) = { ObstacleIds[1], ObstacleIds[3] }

\* C29: after any sequence of pointer selections, Escape, Delete and
\* add-obstacle, the selected id is null or the id of an entity that
\* exists: the emitter or an obstacle not removed.
C29_SelectionExists ==
  selectedPlaneId \in { NoSelection, emitterId } \cup IdsOf(obstacles)

C29_Witness ==
  /\ frame.op = "Delete"
  /\ obstacleCounter = 3
  /\ IdsOf(obstacles) = { ObstacleIds[1], ObstacleIds[2] }
  /\ selectedPlaneId = emitterId


\* The trail of slot i as the tick found it: that of the particle the rate
\* loop spawned in the slot, if it spawned one, else that of the slot.
TrailBefore(i) ==
  IF frame'.marks[i].spawned THEN frame'.marks[i].born[1].trail ELSE particles[i].trail

=============================================================================
